---------------------------- MODULE Spec2Model ----------------------------
(***************************************************************************)
(* Model of the sandbox session lifecycle of "CLI on the Cloud":           *)
(*   - the streaming setup orchestrator   (src/unnamed/part_003, POST)     *)
(*   - the tool registry                  (src/lib/ai-tools-config.ts)     *)
(*   - the session store                  (src/hooks/use-session-storage)  *)
(*   - the sandbox registry, creation state (use-sandbox-storage.ts)      *)
(*   - the creation flow of the browser   (create-sandbox.tsx, page.tsx)   *)
(*                                                                         *)
(* JavaScript values are records [t, v]: t is the typeof tag, v the value  *)
(* written as a string.  Progress lines are named by their template.       *)
(***************************************************************************)
EXTENDS Integers, Sequences, FiniteSets, TLC

(***************************************************************************)
(* Bounds of the model.                                                    *)
(***************************************************************************)
NumConns == 2        \* HTTP connections to the setup orchestrator
MaxSaves == 11       \* saves into the session store in one behaviour
MaxRevisits == 2     \* re-saves of a known id plus changes of the selected tool
MaxTime == 1         \* clock values 0..MaxTime (milliseconds)
MaxCuts == 2         \* places where the bytes of one stream are cut
MaxSubmits == 2      \* submissions of one tab that pass the guard
MaxCommandLen == 4   \* characters of a terminal command
MaxTabSaves == 11    \* calls of saveSession made by the two tabs together
MaxOverlaps == 1     \* of them, calls started while the other tab is in one

(***************************************************************************)
(* JavaScript values.                                                      *)
(***************************************************************************)
Undef == [t |-> "undefined", v |-> ""]
Null == [t |-> "null", v |-> ""]
Str(s) == [t |-> "string", v |-> s]
Num(s) == [t |-> "number", v |-> s]
Bool(b) == [t |-> "boolean", v |-> IF b THEN "true" ELSE "false"]

\* ToBoolean: "", 0, null, undefined and false are falsy.
Truthy(x) ==
  CASE x.t = "string" -> x.v # ""
    [] x.t = "number" -> x.v # "0"
    [] x.t = "boolean" -> x.v = "true"
    [] OTHER -> FALSE

\* A destructuring default applies to undefined only (not to null).
Default(x, d) == IF x = Undef THEN d ELSE x

(***************************************************************************)
(* Tool registry: src/lib/ai-tools-config.ts                               *)
(***************************************************************************)
AITools == {"claude-code", "cursor-cli"}

AI_TOOLS_CONFIG ==
  [tool \in AITools |->
     IF tool = "claude-code"
     THEN [ displayName |-> "Claude Code",
            apiKeyEnvVar |-> "ANTHROPIC_API_KEY",
            installation |->
              [ cmd |-> "bash",
                args |-> <<"-c", "npm install -g @anthropic-ai/claude-code">>,
                sudo |-> TRUE ],
            promptArgs |-> <<"-p", "hello", "--output-format", "json",
                             "--dangerously-skip-permissions">>,
            continueCommand |-> <<"--continue", "--output-format", "json",
                                  "--dangerously-skip-permissions">> ]
     ELSE [ displayName |-> "Cursor CLI",
            apiKeyEnvVar |-> "CURSOR_API_KEY",
            installation |->
              [ cmd |-> "bash",
                args |-> <<"-c", "curl -fsSL https://cursor.com/install | bash">>,
                sudo |-> TRUE ],
            promptArgs |-> <<"-a", "CURSOR_API_KEY_PLACEHOLDER", "-p", "hello",
                             "--output-format", "json">>,
            continueCommand |-> <<"-a", "CURSOR_API_KEY_PLACEHOLDER", "resume",
                                  "--output-format", "json">> ] ]

getAIToolConfig(tool) == AI_TOOLS_CONFIG[tool]

\* sessionConfig.resumeCommand(sessionId) of each tool.
getResumeCommand(tool, sessionId) ==
  IF tool = "claude-code"
  THEN <<"--resume", sessionId, "--output-format", "json",
         "--dangerously-skip-permissions">>
  ELSE <<"-a", "CURSOR_API_KEY_PLACEHOLDER", "--resume", sessionId,
         "--output-format", "json">>

getContinueCommand(tool) == getAIToolConfig(tool).continueCommand

(***************************************************************************)
(* JSON documents.  A parsed value is [k |-> "object", o |-> record],      *)
(* [k |-> "array", a |-> sequence of parsed values] or a scalar.  A text   *)
(* (stdout, stderr) is [kind, text, json]: kind says whether JSON.parse    *)
(* accepts the text, json is what it returns when it does.                 *)
(***************************************************************************)
JObj(o) == [k |-> "object", o |-> o]
JArr(a) == [k |-> "array", a |-> a]
JNum(n) == [k |-> "number", n |-> n]
JNull == [k |-> "null"]

EmptyText == [kind |-> "empty", text |-> "", json |-> JNull]
PlainText(s) == [kind |-> "text", text |-> s, json |-> JNull]
JsonText(s, j) == [kind |-> "json", text |-> s, json |-> j]

\* String(x) of a field value: fields hold strings in this model.
HasKey(j, key) == j.k = "object" /\ key \in DOMAIN j.o

RECURSIVE FirstWith(_, _, _)
\* Index of the first element of array a, from i on, that is an object with
\* one of the keys; 0 when there is none.
FirstWith(a, keys, i) ==
  IF i > Len(a) THEN 0
  ELSE IF \E key \in keys : HasKey(a[i], key) THEN i
  ELSE FirstWith(a, keys, i + 1)

\* AI_TOOLS_CONFIG['claude-code'].sessionConfig.extractSessionId on a parsed
\* value (the caller has parsed stdout already).
ClaudeExtractSessionId(j) ==
  IF j.k = "array"
  THEN LET i == FirstWith(j.a, {"session_id"}, 1)
       IN IF i = 0 THEN Null ELSE Str(j.a[i].o.session_id)
  ELSE IF HasKey(j, "session_id") THEN Str(j.o.session_id)
  ELSE Null

\* String(obj.chat_id || obj.id): a missing or empty chat_id falls through to
\* id, and String(undefined) is "undefined".
ChatIdOrId(o) ==
  IF "chat_id" \in DOMAIN o /\ o.chat_id # "" THEN o.chat_id
  ELSE IF "id" \in DOMAIN o THEN o.id
  ELSE "undefined"

\* AI_TOOLS_CONFIG['cursor-cli'].sessionConfig.extractSessionId.  An array
\* is an object without own keys chat_id / id, so it reaches the scan.
CursorExtractSessionId(j) ==
  IF HasKey(j, "chat_id") \/ HasKey(j, "id") THEN Str(ChatIdOrId(j.o))
  ELSE IF j.k = "array"
  THEN LET i == FirstWith(j.a, {"chat_id", "id"}, 1)
       IN IF i = 0 THEN Null ELSE Str(ChatIdOrId(j.a[i].o))
  ELSE Null

extractSessionIdFromResponse(tool, j) ==
  IF tool = "claude-code" THEN ClaudeExtractSessionId(j)
  ELSE CursorExtractSessionId(j)

\* A field value of which String() throws a TypeError: an object whose own
\* toString is not callable, as JSON.parse gives for {"toString": 1}.
UnprintableObject == "{toString:1}"

\* A response given as a string, not yet parsed.
ResponseString(text) == [k |-> "string", text |-> text]

Returned(v) == [threw |-> FALSE, value |-> v]

ThrownTypeError == [threw |-> TRUE, value |-> Null]

\* extractSessionId of either tool on any response, lines 84-102 and
\* 137-158: a string is parsed first and gives null when JSON.parse throws;
\* the id found is returned through String().
extractSessionId(tool, response) ==
  IF response.k = "string" /\ response.text.kind # "json"
  THEN Returned(Null)
  ELSE LET j == IF response.k = "string" THEN response.text.json
                ELSE response
           id == extractSessionIdFromResponse(tool, j)
       IN IF id = Str(UnprintableObject) THEN ThrownTypeError
          ELSE Returned(id)

(***************************************************************************)
(* src/lib/constants.ts                                                    *)
(***************************************************************************)
DEFAULT_SANDBOX_ALIVE_TIME_MS == 5 * 60 * 1000
MIN_SANDBOX_ALIVE_TIME_MS == 1 * 60 * 1000
MAX_SANDBOX_ALIVE_TIME_MS == 10 * 60 * 1000
SANDBOX_ALIVE_TIME_MS == DEFAULT_SANDBOX_ALIVE_TIME_MS


(***************************************************************************)
(* State.                                                                  *)
(***************************************************************************)
VARIABLES
  \* ---- setup orchestrator, one processRequest per connection ----
  spc,            \* position of processRequest: idle, parsing, creating,
                  \* installing, testing, closed
  body,           \* the request body
  frames,         \* frames enqueued on the response stream, in order
  createCalls,    \* Sandbox.create calls made, with their arguments
  sandboxOf,      \* index in SandboxIds of createdSandbox, 0 before it exists
  runCalls,       \* runCommand calls made on the created sandbox
  verification,   \* verificationResults (installed, configured, error)
  installExit,    \* exit code of the install command, -1 before it returns
  testResult,     \* what the step-3 invocation returned
  innerThrown,    \* the exception caught by the inner catch, if any
  nextSandbox,    \* sandboxes the runtime has created so far
  \* ---- session store (browser storage, one key per tool) ----
  sessions,       \* the stored list of each tool, NoItem when the key is unset
  now,            \* the clock, in milliseconds
  latest,         \* history: per tool, the last record saved for each
                  \* session id since the key was last cleared
  resaves,        \* history: saves of an id that had been saved before
  selectedTool,   \* the tool selected in the creation form
  toolChanges,    \* history: changes of the selected tool
  \* ---- browser application: creation form and chat page ----
  route,          \* the route shown: home, or /chat/<sandboxId>
  creationState,  \* storage slot 'sandbox-creation-state'
  registry,       \* storage slots 'sandbox-<id>'
  pageSandbox,    \* the chat page's sandbox state, Null when it has none
  pagePc,         \* chat page: none (not shown), mounting (its load effect
                  \* is pending), loaded
  stopping,       \* the stop request in flight, if any: the sandbox id
                  \* in its URL and the sandboxId its handler removes
  reader,         \* per connection, the read loop of the client that
                  \* fetched it
  lastRun,        \* history: the last handler run and the storage and
                  \* router calls it made, in order
  attemptRequests, \* history: who sent the setup requests that reached
                  \* the orchestrator since the form was last submitted
  \* ---- setup tasks shown by the chat component ----
  setupTasks,     \* the task list of useSetupTasks, <<>> before it is set
  streamed,       \* frames of the setup stream whose text is in
                  \* streamingMessages
  sandboxProp,    \* the sandbox prop: none, temp (id null), descriptor,
                  \* reloaded (the descriptor read back from storage)
  settled,        \* history: per task, the first completed / failed
                  \* status it reached
  \* ---- expiry timer of the chat view ----
  clock,          \* Date.now() of the browser, in ms
  timerSandbox,   \* the descriptor the timer effect runs for, and the
                  \* component showing it
  remainingTimeMs,
  isExpired,
  checkedAt,      \* history: the clock at the last updateTimer, or -1
  \* ---- one event stream read by a client loop ----
  chunking,       \* the stream being read, where its bytes are cut into
                  \* chunks, and how many tokens have been read
  received,       \* what the loop has so far: the accumulated text and the
                  \* terminal payload
  \* ---- the chat component of one tab ----
  chatSandbox,    \* the sandbox prop's id: undefined before the component
                  \* is shown, null during creation, or the id
  sandboxSessionId, \* the sandbox prop's session?.id
  messages,       \* the message list
  isTerminalMode,
  input,
  isLoading,
  error,
  currentSessionId,
  outstanding,    \* requests sent whose handling has not finished
  submitted,      \* submissions that passed the guard so far
  lastSubmit,     \* history: what the last run of handleSubmit did
  sinceNewChat,   \* history: New Chat was triggered and no chat response
                  \* has supplied a session id since
  lastResponse,   \* history: the last response handled, with the result
                  \* the runtime had for the command and what the client
                  \* read
  \* ---- one call of a tool's extractSessionId ----
  extraction,     \* the tool and response of the call and its outcome
  \* ---- the relay routes of a sandbox: chat, terminal, stop ----
  relay,          \* the request handled: its route, sandbox id and body,
                  \* what the runtime did, the response, and the calls made
                  \* on the runtime
  \* ---- localStorage under the calls of useSandboxStorage ----
  localStorage,   \* the item stored under each key
  storageCall,    \* history: the last call of the hook, the keys it
                  \* passed to the adapter, what it returned, and the
                  \* storage before it
  creationWritten, \* history: the argument of the last setCreationState
                  \* since the last clearCreationState, Null without one
  \* ---- two tabs saving sessions of one tool ----
  tabs,           \* per tab: where its saveSession stands, the list it
                  \* read and the record it saves
  tabSaves,       \* history: calls of saveSession started so far
  overlaps,       \* history: calls started while the other tab had read
                  \* and not yet written
  lastWrite       \* history: the last setItem of a tab: the tab, the
                  \* record it saved, the list it had read and the list
                  \* it overwrote

srvVars == <<spc, body, frames, createCalls, sandboxOf, runCalls, verification,
             installExit, testResult, innerThrown, nextSandbox>>

sessVars == <<sessions, now, latest, resaves, selectedTool, toolChanges>>

cliVars == <<route, creationState, registry, pageSandbox, pagePc, stopping,
             reader, lastRun, attemptRequests>>

taskVars == <<setupTasks, streamed, sandboxProp, settled>>

timerVars == <<clock, timerSandbox, remainingTimeMs, isExpired, checkedAt>>

chunkVars == <<chunking, received>>
extractVars == <<extraction>>
relayVars == <<relay>>
storageVars == <<localStorage, storageCall, creationWritten>>
tabVars == <<tabs, tabSaves, overlaps, lastWrite>>
chatVars == <<chatSandbox, sandboxSessionId, messages, isTerminalMode, input,
              isLoading, error, currentSessionId, outstanding, submitted,
              lastSubmit, sinceNewChat, lastResponse>>

otherThanSrv == <<sessVars, cliVars, taskVars, timerVars, chunkVars, chatVars,
                  extractVars, relayVars,
                  storageVars, tabVars>>
otherThanSess == <<srvVars, cliVars, taskVars, timerVars, chunkVars, chatVars,
                   extractVars, relayVars,
                  storageVars, tabVars>>
otherThanCli == <<taskVars, timerVars, chunkVars, chatVars, extractVars,
                  relayVars,
                  storageVars, tabVars>>
otherThanTask == <<timerVars, chunkVars, chatVars, extractVars, relayVars,
                  storageVars, tabVars>>
otherThanTimer == <<taskVars, chunkVars, chatVars, extractVars, relayVars,
                  storageVars, tabVars>>
otherThanChunk == <<srvVars, sessVars, cliVars, taskVars, timerVars, chatVars,
                    extractVars, relayVars,
                  storageVars, tabVars>>
otherThanChat == <<srvVars, cliVars, taskVars, timerVars, chunkVars, extractVars,
                   relayVars,
                  storageVars, tabVars>>
otherThanExtract == <<srvVars, sessVars, cliVars, taskVars, timerVars,
                      chunkVars, chatVars, relayVars,
                  storageVars, tabVars>>
otherThanRelay == <<srvVars, sessVars, cliVars, taskVars, timerVars,
                    chunkVars, chatVars, extractVars, storageVars, tabVars>>
otherThanStorage == <<srvVars, sessVars, cliVars, taskVars, timerVars,
                      chunkVars, chatVars, extractVars, relayVars, tabVars>>
otherThanTabs == <<srvVars, cliVars, taskVars, timerVars, chunkVars, chatVars,
                   extractVars, relayVars, storageVars>>

Conns == 1..NumConns

(***************************************************************************)
(* Values the environment supplies.                                        *)
(***************************************************************************)
NoBody ==
  [ ok |-> FALSE, apiKey |-> Undef, tool |-> Undef, sessionId |-> Undef,
    prompt |-> Undef, resumeSession |-> Undef, aliveTimeMinutes |-> 0 ]

ApiKeySamples == {Undef, Str(""), Str(" "), Str("sk-1"), Num("7")}
ToolSamples == {Undef, Str("claude-code"), Str("cursor-cli"), Str("gpt-x")}
SessionIdSamples == {Undef, Str(""), Str("abc123")}
PromptSamples == {Undef, Str("hello"), Str("fix the bug")}
ResumeSamples == {Undef, Bool(FALSE), Bool(TRUE)}
AliveMinutesSamples == {0, 1, 5, 10, 11}

\* Bodies any HTTP client may post; ok = FALSE is a body request.json()
\* rejects.
Bodies ==
  {NoBody} \cup
  [ ok : {TRUE}, apiKey : ApiKeySamples, tool : ToolSamples,
    sessionId : SessionIdSamples, prompt : PromptSamples,
    resumeSession : ResumeSamples, aliveTimeMinutes : AliveMinutesSamples ]

\* A thrown value: an Error with a message, or something else.
Thrown ==
  { [isError |-> TRUE, message |-> "sandbox unavailable"],
    [isError |-> FALSE, message |-> "not an Error"] }
NotThrown == [isError |-> FALSE, message |-> ""]

SandboxIds == <<"sbx_1", "sbx_2", "sbx_3">>

ExitCodes == {0, 1}

StdoutSamples ==
  { EmptyText,
    PlainText("Hello! How can I help?"),
    JsonText("{session_id:sess-1}",
             JObj([session_id |-> "sess-1", result |-> "Hello"])),
    JsonText("[{type:system},{session_id:sess-2}]",
             JArr(<<JObj([type |-> "system"]),
                    JObj([type |-> "result", session_id |-> "sess-2"])>>)),
    JsonText("{chat_id:chat-1}", JObj([chat_id |-> "chat-1"])),
    JsonText("{result:ok}", JObj([result |-> "ok"])) }

StderrSamples == {EmptyText, PlainText("command not found")}

NoResult == [exitCode |-> -1, stdout |-> EmptyText, stderr |-> EmptyText]

TestResults ==
  [exitCode : ExitCodes, stdout : StdoutSamples, stderr : StderrSamples]

(***************************************************************************)
(* Frames of the setup stream: sendMessage, part_003 lines 13-16.          *)
(***************************************************************************)
TextDelta(id, tpl) == [type |-> "text-delta", id |-> id, delta |-> tpl]

DataFrame(id, data) == [type |-> "data", id |-> id, data |-> data]

NoError == [kind |-> "none", exit |-> 0, detail |-> ""]

InitialVerification ==
  [installed |-> FALSE, configured |-> FALSE, error |-> NoError]

(***************************************************************************)
(* Request validation: part_003 lines 21-45.                               *)
(***************************************************************************)
EffectiveTool(b) == Default(b.tool, Str("cursor-cli"))
EffectivePrompt(b) == Default(b.prompt, Str("hello"))
EffectiveResume(b) == Default(b.resumeSession, Bool(FALSE))

\* !apiKey || typeof apiKey !== "string"
ApiKeyRejected(apiKey) == ~Truthy(apiKey) \/ apiKey.t # "string"

\* !tool || typeof tool !== "string" || !["claude-code","cursor-cli"].includes(tool)
ToolRejected(tool) ==
  ~Truthy(tool) \/ tool.t # "string" \/ tool.v \notin {"claude-code", "cursor-cli"}

(***************************************************************************)
(* Step 3: the invocation.  part_003 lines 143-183.                        *)
(***************************************************************************)
ResumeArgs(tool, sessionId, prompt) ==
  getResumeCommand(tool, sessionId) \o <<"-p", prompt>>

ContinueArgs(tool, prompt) == getContinueCommand(tool) \o <<"-p", prompt>>

NewPromptArgs(tool, prompt) ==
  LET Subst(arg) == IF arg = "hello" THEN prompt ELSE arg
  IN [i \in DOMAIN getAIToolConfig(tool).promptArgs |->
        Subst(getAIToolConfig(tool).promptArgs[i])]

\* The shape mutated: resume is taken whenever a session id is given.
CommandArgsIgnoringResumeFlag(tool, resumeSession, sessionId, prompt) ==
  IF Truthy(sessionId) THEN ResumeArgs(tool, sessionId.v, prompt)
  ELSE IF Truthy(resumeSession) THEN ContinueArgs(tool, prompt)
  ELSE NewPromptArgs(tool, prompt)

CommandArgs(tool, resumeSession, sessionId, prompt) ==
  IF Truthy(resumeSession) /\ Truthy(sessionId)
  THEN ResumeArgs(tool, sessionId.v, prompt)
  ELSE IF Truthy(resumeSession) /\ ~Truthy(sessionId)
  THEN ContinueArgs(tool, prompt)
  ELSE NewPromptArgs(tool, prompt)

\* The runCommand call of step 3.  For claude-code the arguments are joined
\* into one bash -c script that exports the key first; the script is kept
\* as [env, key, argv].
InvocationCall(tool, apiKey, commandArgs) ==
  IF tool = "claude-code"
  THEN [ cmd |-> "bash",
         script |-> [env |-> getAIToolConfig(tool).apiKeyEnvVar, key |-> apiKey],
         args |-> commandArgs,
         sudo |-> FALSE ]
  ELSE LET Fill(arg) == IF arg = "CURSOR_API_KEY_PLACEHOLDER" THEN apiKey ELSE arg
       IN [ cmd |-> "cursor-agent",
            script |-> [env |-> "", key |-> ""],
            args |-> [i \in DOMAIN commandArgs |-> Fill(commandArgs[i])],
            sudo |-> TRUE ]

InstallCall(tool) ==
  LET inst == getAIToolConfig(tool).installation
  IN [ cmd |-> inst.cmd, script |-> [env |-> "", key |-> ""],
       args |-> inst.args, sudo |-> inst.sudo ]


(***************************************************************************)
(* The setup orchestrator: POST / processRequest, part_003 lines 8-331.    *)
(* One action per stretch of code between two awaits.                      *)
(***************************************************************************)
Send(c, fs) == frames' = [frames EXCEPT ![c] = @ \o fs]

\* error instanceof Error ? error.message : "Failed to create sandbox"
OuterMessage(e) == IF e.isError THEN e.message ELSE "Failed to create sandbox"

\* The outer catch, lines 295-313: a progress line, the error-info frame,
\* close.
OuterCatch(c, e) ==
  /\ Send(c, << TextDelta("error", "setup-failed"),
                DataFrame("error-info",
                          [success |-> FALSE, error |-> OuterMessage(e)]) >>)
  /\ spc' = [spc EXCEPT ![c] = "closed"]

\* Step 4, lines 264-294: the descriptor, "Setup Complete", the sandbox-info
\* frame, close.
Info(c, v, sid) ==
  [ id |-> Str(SandboxIds[sandboxOf[c]]),
    timeoutMs |-> SANDBOX_ALIVE_TIME_MS,
    tool |-> EffectiveTool(body[c]).v,
    initialPrompt |-> EffectivePrompt(body[c]).v,
    verification |-> v,
    session |-> [ id |-> sid,
                  resumed |-> EffectiveResume(body[c]),
                  requestedSessionId |-> body[c].sessionId ] ]

CompletionFrames(c, v, sid) ==
  << TextDelta("setup-tasks", "setup-complete"),
     DataFrame("sandbox-info",
               [success |-> TRUE, sandbox |-> Info(c, v, sid)]) >>

\* The inner catch, lines 247-262, followed by step 4.
InnerCatch(c, e) ==
  LET v == [verification[c] EXCEPT
              !.error = [kind |-> "exception", exit |-> 0,
                         detail |-> IF e.isError THEN e.message
                                    ELSE "Unknown verification error"]]
  IN /\ verification' = [verification EXCEPT ![c] = v]
     /\ innerThrown' = [innerThrown EXCEPT ![c] = e]
     /\ Send(c, <<TextDelta("setup-tasks", "setup-error")>>
                \o CompletionFrames(c, v, Null))
     /\ spc' = [spc EXCEPT ![c] = "closed"]

\* The request reaches the route: the stream is returned and processRequest
\* runs up to await request.json().
Accept(c, b) ==
  /\ spc[c] = "idle"
  /\ spc' = [spc EXCEPT ![c] = "parsing"]
  /\ body' = [body EXCEPT ![c] = b]
  /\ UNCHANGED <<frames, createCalls, sandboxOf, runCalls, verification,
                 installExit, testResult, innerThrown, nextSandbox>>

\* A request of a client that is not the browser application.
Post(c, b) ==
  /\ Accept(c, b)
  /\ UNCHANGED otherThanSrv

\* Lines 20-68: the body is read and validated; a valid request sends the
\* two headers and calls Sandbox.create.
Validate(c) ==
  /\ spc[c] = "parsing"
  /\ IF ~body[c].ok
     THEN /\ OuterCatch(c, [isError |-> TRUE, message |-> "Unexpected token"])
          /\ UNCHANGED createCalls
     ELSE IF ApiKeyRejected(body[c].apiKey)
     THEN /\ Send(c, <<TextDelta("error", "api-key-required")>>)
          /\ spc' = [spc EXCEPT ![c] = "closed"]
          /\ UNCHANGED createCalls
     ELSE IF ToolRejected(EffectiveTool(body[c]))
     THEN /\ Send(c, <<TextDelta("error", "valid-tool-required")>>)
          /\ spc' = [spc EXCEPT ![c] = "closed"]
          /\ UNCHANGED createCalls
     ELSE /\ Send(c, << TextDelta("setup-tasks", "setting-up"),
                        TextDelta("setup-tasks", "creating-sandbox") >>)
          /\ createCalls' =
               [createCalls EXCEPT ![c] =
                  Append(@, [vcpus |-> 2, runtime |-> "node22",
                             timeout |-> SANDBOX_ALIVE_TIME_MS])]
          /\ spc' = [spc EXCEPT ![c] = "creating"]
  /\ UNCHANGED <<body, sandboxOf, runCalls, verification, installExit,
                 testResult, innerThrown, nextSandbox>>
  /\ UNCHANGED otherThanSrv

\* Sandbox.create throws: the outer catch.
CreateThrows(c, e) ==
  /\ spc[c] = "creating"
  /\ OuterCatch(c, e)
  /\ UNCHANGED <<body, createCalls, sandboxOf, runCalls, verification,
                 installExit, testResult, innerThrown, nextSandbox>>
  /\ UNCHANGED otherThanSrv

\* Lines 70-109: the sandbox exists; its id is reported, the install header
\* is sent and the install command is started.
CreateReturns(c) ==
  /\ spc[c] = "creating"
  /\ nextSandbox < Len(SandboxIds)
  /\ nextSandbox' = nextSandbox + 1
  /\ sandboxOf' = [sandboxOf EXCEPT ![c] = nextSandbox + 1]
  /\ verification' = [verification EXCEPT ![c] = InitialVerification]
  /\ Send(c, << TextDelta("setup-tasks", "sandbox-created"),
                TextDelta("setup-tasks", "installing") >>)
  /\ runCalls' = [runCalls EXCEPT ![c] =
                    Append(@, InstallCall(EffectiveTool(body[c]).v))]
  /\ spc' = [spc EXCEPT ![c] = "installing"]
  /\ UNCHANGED <<body, createCalls, installExit, testResult, innerThrown>>
  /\ UNCHANGED otherThanSrv

\* runCommand, stdout() or stderr() of the install throws: the inner catch.
InstallThrows(c, e) ==
  /\ spc[c] = "installing"
  /\ InnerCatch(c, e)
  /\ UNCHANGED <<body, createCalls, sandboxOf, runCalls, installExit,
                 testResult, nextSandbox>>
  /\ UNCHANGED otherThanSrv

\* Lines 120-132 mutated: a non-zero install exit reported as a failure.
InstallLineFailing(exitCode) ==
  IF exitCode = 0 THEN "installed-ok" ELSE "setup-error"

\* Lines 120-132: the progress line after the install command.
InstallLine(exitCode) ==
  IF exitCode = 0 THEN "installed-ok" ELSE "installed-with-warnings"

\* Lines 134-139: the header of step 3.
TestHeader(resumeSession) ==
  IF Truthy(resumeSession) THEN "testing-resuming" ELSE "testing-new"

\* Lines 110-183: the install command returned; its line is sent, then the
\* header of step 3, and the invocation is started.
InstallReturns(c, x) ==
  /\ spc[c] = "installing"
  /\ installExit' = [installExit EXCEPT ![c] = x]
  /\ Send(c, << TextDelta("setup-tasks", InstallLine(x)),
                TextDelta("setup-tasks",
                          TestHeader(EffectiveResume(body[c]))) >>)
  /\ runCalls' =
       [runCalls EXCEPT ![c] =
          Append(@, InvocationCall(
                      EffectiveTool(body[c]).v, body[c].apiKey.v,
                      CommandArgs(EffectiveTool(body[c]).v,
                                  EffectiveResume(body[c]), body[c].sessionId,
                                  EffectivePrompt(body[c]).v)))]
  /\ spc' = [spc EXCEPT ![c] = "testing"]
  /\ UNCHANGED <<body, createCalls, sandboxOf, verification, testResult,
                 innerThrown, nextSandbox>>
  /\ UNCHANGED otherThanSrv

\* runCommand, stdout() or stderr() of the invocation throws: the inner
\* catch.
TestThrows(c, e) ==
  /\ spc[c] = "testing"
  /\ InnerCatch(c, e)
  /\ UNCHANGED <<body, createCalls, sandboxOf, runCalls, installExit,
                 testResult, nextSandbox>>
  /\ UNCHANGED otherThanSrv

\* Lines 189-209: JSON.parse(stdout) when stdout is not empty; the session
\* id is extracted from the parsed value; a text that is not JSON is kept
\* as it is.
ExtractedSessionId(tool, stdout) ==
  IF stdout.kind = "json" THEN extractSessionIdFromResponse(tool, stdout.json)
  ELSE Null

\* promptError || promptOutput || "no output"
FailureDetail(r) ==
  IF r.stderr.kind # "empty" THEN r.stderr.text
  ELSE IF r.stdout.kind # "empty" THEN r.stdout.text
  ELSE "no output"

\* Lines 215-246: verificationResults after the invocation.
VerificationAfter(r) ==
  IF r.exitCode = 0
  THEN [installed |-> TRUE, configured |-> TRUE, error |-> NoError]
  ELSE [installed |-> FALSE, configured |-> FALSE,
        error |-> [kind |-> "test-failed", exit |-> r.exitCode,
                   detail |-> FailureDetail(r)]]

\* Lines 185-294: the invocation returned; its result is recorded and
\* reported, then step 4.
TestReturns(c, r) ==
  /\ spc[c] = "testing"
  /\ LET v == VerificationAfter(r)
         sid == ExtractedSessionId(EffectiveTool(body[c]).v, r.stdout)
     IN /\ testResult' = [testResult EXCEPT ![c] = r]
        /\ verification' = [verification EXCEPT ![c] = v]
        /\ Send(c, << TextDelta("setup-tasks",
                                IF r.exitCode = 0 THEN "test-ok"
                                ELSE "test-failed") >>
                   \o CompletionFrames(c, v, sid))
  /\ spc' = [spc EXCEPT ![c] = "closed"]
  /\ UNCHANGED <<body, createCalls, sandboxOf, runCalls, installExit,
                 innerThrown, nextSandbox>>
  /\ UNCHANGED otherThanSrv

ServerStep(c) ==
  \/ Validate(c)
  \/ \E e \in Thrown : CreateThrows(c, e)
  \/ CreateReturns(c)
  \/ \E e \in Thrown : InstallThrows(c, e)
  \/ \E x \in ExitCodes : InstallReturns(c, x)
  \/ \E e \in Thrown : TestThrows(c, e)
  \/ \E r \in TestResults : TestReturns(c, r)

SrvInit ==
  /\ spc = [c \in Conns |-> "idle"]
  /\ body = [c \in Conns |-> NoBody]
  /\ frames = [c \in Conns |-> <<>>]
  /\ createCalls = [c \in Conns |-> <<>>]
  /\ sandboxOf = [c \in Conns |-> 0]
  /\ runCalls = [c \in Conns |-> <<>>]
  /\ verification = [c \in Conns |-> InitialVerification]
  /\ installExit = [c \in Conns |-> -1]
  /\ testResult = [c \in Conns |-> NoResult]
  /\ innerThrown = [c \in Conns |-> NotThrown]
  /\ nextSandbox = 0


(***************************************************************************)
(* Session store: src/hooks/use-session-storage.ts (and the same code in   *)
(* src/components/simple-chat.tsx lines 69-94).  Times are milliseconds;   *)
(* an ISO string and new Date(iso).getTime() name the same millisecond.    *)
(***************************************************************************)
MAX_SESSIONS == 10

NoItem == [present |-> FALSE, list |-> <<>>]
Item(list) == [present |-> TRUE, list |-> list]

\* getSessions: the parsed list, [] when the key is unset.
getSessions(tool) == IF sessions[tool].present THEN sessions[tool].list ELSE <<>>

RECURSIVE FindIndex(_, _, _)
\* findIndex(s => s.sessionId === sessionId): the first match from i on, 0
\* (for -1) when there is none.
FindIndex(list, sessionId, i) ==
  IF i > Len(list) THEN 0
  ELSE IF list[i].sessionId = sessionId THEN i
  ELSE FindIndex(list, sessionId, i + 1)

\* Lines 23-31 mutated: the record is pushed without looking for its id.
UpsertAlwaysPushing(list, session) == Append(list, session)

\* Lines 23-31: replace the record with the same sessionId, else push.
Upsert(list, session) ==
  LET i == FindIndex(list, session.sessionId, 1)
  IN IF i > 0 THEN [list EXCEPT ![i] = session] ELSE Append(list, session)

RECURSIVE InsertDesc(_, _)
\* r put into a list sorted by lastUsedAt descending, after the records
\* that are not older than it (Array.prototype.sort is stable).
InsertDesc(sorted, r) ==
  IF sorted = <<>> THEN <<r>>
  ELSE IF Head(sorted).lastUsedAt >= r.lastUsedAt
       THEN <<Head(sorted)>> \o InsertDesc(Tail(sorted), r)
       ELSE <<r>> \o sorted

RECURSIVE SortByLastUsedDesc(_)
\* Lines 34-37: sort((a, b) => time(b.lastUsedAt) - time(a.lastUsedAt)).
SortByLastUsedDesc(list) ==
  IF list = <<>> THEN <<>>
  ELSE InsertDesc(SortByLastUsedDesc(SubSeq(list, 1, Len(list) - 1)),
                  list[Len(list)])

\* Line 38 mutated: the tail of the sorted list is kept.
LimitKeepingTail(list) ==
  IF Len(list) <= MAX_SESSIONS THEN list
  ELSE SubSeq(list, Len(list) - MAX_SESSIONS + 1, Len(list))

\* Line 38: slice(0, MAX_SESSIONS).
Limit(list) ==
  IF Len(list) <= MAX_SESSIONS THEN list ELSE SubSeq(list, 1, MAX_SESSIONS)

\* saveSession, lines 19-41, and the history of what was saved.
saveSession(tool, session) ==
  /\ sessions' =
       [sessions EXCEPT ![tool] =
          Item(Limit(SortByLastUsedDesc(Upsert(getSessions(tool), session))))]
  /\ latest' =
       [latest EXCEPT ![tool] =
          {r \in @ : r.sessionId # session.sessionId} \cup {session}]

SavedIds(tool) == {r.sessionId : r \in latest[tool]}

Saves == Cardinality(SavedIds("claude-code")) + Cardinality(SavedIds("cursor-cli"))
           + resaves

\* A chat turn or a creation yields a session id the store has not seen:
\* createdAt and lastUsedAt are the current time (part_011 lines 322-333,
\* create-sandbox.tsx lines 333-342).
SaveNewSession(tool) ==
  /\ Saves < MaxSaves
  /\ tool = selectedTool
  /\ \E sandbox \in {"sbx_1"} :
       saveSession(tool, [ sessionId |-> Cardinality(SavedIds(tool)) + 1,
                           sandboxId |-> sandbox,
                           createdAt |-> now, lastUsedAt |-> now ])
  /\ UNCHANGED <<now, resaves, selectedTool, toolChanges>>
  /\ UNCHANGED otherThanSess

\* The sessions a chat is taken to continue: the one saved first and the
\* one saved last among those saved so far.
ChatSessionSamples(tool) ==
  { r \in latest[tool] : r.sessionId \in {1, Cardinality(SavedIds(tool))} }

\* The rows of the stored list a user is taken to resume: first and last.
ResumeIndexSamples(tool) ==
  { i \in DOMAIN getSessions(tool) : i \in {1, Len(getSessions(tool))} }

\* A later chat turn of a session saved before: a new record with the same
\* id, created and last used now (part_011 lines 322-333).
SaveChatTurn(tool) ==
  /\ tool = selectedTool
  /\ resaves + toolChanges < MaxRevisits
  /\ \E r \in ChatSessionSamples(tool) : \E sandbox \in {"sbx_2"} :
       saveSession(tool, [ sessionId |-> r.sessionId, sandboxId |-> sandbox,
                           createdAt |-> now, lastUsedAt |-> now ])
  /\ resaves' = resaves + 1
  /\ UNCHANGED <<now, selectedTool, toolChanges>>
  /\ UNCHANGED otherThanSess

\* handleResumeSessionClick, create-sandbox.tsx lines 186-225: a session of
\* the stored list is selected and saved again with lastUsedAt now.
SaveResumed(tool) ==
  /\ tool = selectedTool
  /\ resaves + toolChanges < MaxRevisits
  /\ \E i \in ResumeIndexSamples(tool) :
       saveSession(tool, [getSessions(tool)[i] EXCEPT !.lastUsedAt = now])
  /\ resaves' = resaves + 1
  /\ UNCHANGED <<now, selectedTool, toolChanges>>
  /\ UNCHANGED otherThanSess

\* clearSessions, lines 43-45.
clearSessions(tool) ==
  /\ sessions[tool].present
  /\ sessions' = [sessions EXCEPT ![tool] = NoItem]
  /\ latest' = [latest EXCEPT ![tool] = {}]
  /\ UNCHANGED <<now, resaves, selectedTool, toolChanges>>
  /\ UNCHANGED otherThanSess

\* handleToolChange, create-sandbox.tsx lines 146-149: another tool is
\* selected; the sessions shown and saved are those of that tool.
handleToolChange(newTool) ==
  /\ resaves + toolChanges < MaxRevisits
  /\ newTool # selectedTool
  /\ selectedTool' = newTool
  /\ toolChanges' = toolChanges + 1
  /\ UNCHANGED <<sessions, now, latest, resaves>>
  /\ UNCHANGED otherThanSess

\* Time passes.
Tick ==
  /\ now < MaxTime
  /\ now' = now + 1
  /\ UNCHANGED <<sessions, latest, resaves, selectedTool, toolChanges>>
  /\ UNCHANGED otherThanSess

SessInit ==
  /\ sessions = [tool \in AITools |-> NoItem]
  /\ latest = [tool \in AITools |-> {}]
  /\ now = 0
  /\ resaves = 0
  /\ selectedTool = "cursor-cli"
  /\ toolChanges = 0

SessionStep ==
  \/ \E tool \in AITools : SaveNewSession(tool)
  \/ \E tool \in AITools : SaveChatTurn(tool)
  \/ \E tool \in AITools : SaveResumed(tool)
  \/ \E tool \in AITools : clearSessions(tool)
  \/ \E tool \in AITools : handleToolChange(tool)
  \/ Tick

(***************************************************************************)
(* Browser storage of sandboxes and of the creation state:                 *)
(* src/hooks/use-sandbox-storage.ts.  Router: next/navigation.             *)
(***************************************************************************)
Home == [page |-> "home", sandboxId |-> ""]
Chat(id) == [page |-> "chat", sandboxId |-> id]

\* `creating-${Date.now()}`: the provisional id of a creating-* route.
TempId == "creating"

RegistryKeys == {SandboxIds[i] : i \in DOMAIN SandboxIds}

NoSandboxItem == [present |-> FALSE]
SandboxItem(d) == [present |-> TRUE, sandbox |-> d]

NoCreationState == [present |-> FALSE]
CreationItem(state) == [present |-> TRUE, state |-> state]

\* The calls a handler makes on storage and on the router.
OpSetSandbox(d) == [op |-> "setSandbox", sandbox |-> d]
OpRemoveSandbox(key) == [op |-> "removeSandbox", key |-> key]
OpSetCreationState(state) == [op |-> "setCreationState", state |-> state]
OpClearCreationState == [op |-> "clearCreationState"]
OpReplace(id) == [op |-> "replace", to |-> Chat(id)]
OpPush(to) == [op |-> "push", to |-> to]

\* What one call does to [creation, registry, route].
ApplyOp(st, o) ==
  CASE o.op = "setSandbox" ->
         IF Truthy(o.sandbox.id)
         THEN [st EXCEPT !.registry[o.sandbox.id.v] = SandboxItem(o.sandbox)]
         ELSE st
    [] o.op = "removeSandbox" ->
         IF o.key \in RegistryKeys
         THEN [st EXCEPT !.registry[o.key] = NoSandboxItem]
         ELSE st
    [] o.op = "setCreationState" ->
         [st EXCEPT !.creation = CreationItem(o.state)]
    [] o.op = "clearCreationState" ->
         [st EXCEPT !.creation = NoCreationState]
    [] o.op \in {"replace", "push"} ->
         [st EXCEPT !.route = o.to]

RECURSIVE ApplyOps(_, _)
ApplyOps(st, ops) ==
  IF ops = <<>> THEN st
  ELSE ApplyOps(ApplyOp(st, Head(ops)), Tail(ops))

\* The chat page on the screen when a handler runs: the sandboxId of its
\* route and whether its load effect has run.
ShownPage == [sandboxId |-> route.sandboxId, loaded |-> pagePc = "loaded"]

\* A handler run making the calls ops: storage and route after them; a
\* route change mounts the chat page or takes it away.
Run(handler, c, ops) ==
  LET st == ApplyOps([creation |-> creationState, registry |-> registry,
                      route |-> route], ops)
  IN /\ creationState' = st.creation
     /\ registry' = st.registry
     /\ route' = st.route
     /\ pagePc' = IF st.route = route THEN pagePc
                  ELSE IF st.route.page = "home" THEN "none"
                  ELSE "mounting"
     /\ lastRun' = [handler |-> handler, conn |-> c, ops |-> ops,
                     shown |-> ShownPage]

getSandbox(id) ==
  IF id \in RegistryKeys /\ registry[id].present THEN registry[id].sandbox
  ELSE Null

NoReader == [owner |-> "none", sandboxData |-> Null, done |-> FALSE]
NewReader(owner) == [NoReader EXCEPT !.owner = owner]

\* fetch("/api/new-sandbox", ...) connects to the route, on the first idle
\* connection.
FreeConn(c) ==
  /\ spc[c] = "idle"
  /\ \A d \in Conns : d < c => spc[d] # "idle"

\* fetch rejects when the route cannot be reached: here, when every
\* connection is taken.
NoFreeConn == \A c \in Conns : spc[c] # "idle"

\* What the form holds when it is submitted.
FormApiKeys == {" ", "sk-1"}
FormResume == {FALSE}

\* apiKey.trim() of the keys above.
Trim(key) == IF key = " " THEN "" ELSE key

\* create-sandbox.tsx lines 246-255.
FormCreationState(key, resume) ==
  [ apiKey |-> Trim(key), tool |-> selectedTool,
    toolName |-> getAIToolConfig(selectedTool).displayName,
    prompt |-> "hello", resumeSession |-> resume, sessionId |-> "",
    aliveTimeMinutes |-> 5, createdAt |-> now ]

\* The request body of the form, lines 273-280: sessionId || undefined.
FormBody(cs) ==
  [ ok |-> TRUE, apiKey |-> Str(cs.apiKey), tool |-> Str(cs.tool),
    prompt |-> Str(cs.prompt), resumeSession |-> Bool(cs.resumeSession),
    sessionId |-> IF cs.sessionId = "" THEN Undef ELSE Str(cs.sessionId),
    aliveTimeMinutes |-> cs.aliveTimeMinutes ]

\* The request body of the chat page, page.tsx lines 34-41.
PageBody(cs) ==
  [ ok |-> TRUE, apiKey |-> Str(cs.apiKey), tool |-> Str(cs.tool),
    prompt |-> Str(cs.prompt), resumeSession |-> Bool(cs.resumeSession),
    sessionId |-> Str(cs.sessionId),
    aliveTimeMinutes |-> cs.aliveTimeMinutes ]

\* page.tsx lines 132-139.
TempSandbox(cs) ==
  [ id |-> Null, createdAt |-> cs.createdAt,
    timeoutMs |-> cs.aliveTimeMinutes * 60 * 1000,
    tool |-> cs.tool, toolName |-> cs.toolName ]

(***************************************************************************)
(* The creation form, src/components/create-sandbox.tsx, and the chat      *)
(* page, src/app/chat/[sandboxId]/page.tsx.                                *)
(***************************************************************************)
NoStop == [active |-> FALSE, id |-> "", key |-> ""]

\* handleCreateSandboxClick up to await fetch, lines 233-281: a blank key
\* stops it; else the creation state is stored, the creating-* route is
\* pushed and the request is sent (a rejected fetch only sets the form's
\* error message).
handleCreateSandboxClick(key, resume) ==
  /\ route = Home
  /\ IF Trim(key) = ""
     THEN /\ Run("handleCreateSandboxClick", 0, <<>>)
          /\ UNCHANGED <<srvVars, reader, attemptRequests>>
     ELSE LET cs == FormCreationState(key, resume)
          IN /\ Run("handleCreateSandboxClick", 0,
                    <<OpSetCreationState(cs), OpPush(Chat(TempId))>>)
             /\ \/ \E c \in Conns :
                     /\ FreeConn(c)
                     /\ Accept(c, FormBody(cs))
                     /\ reader' = [reader EXCEPT ![c] = NewReader("form")]
                     /\ attemptRequests' = <<"form">>
                \/ /\ NoFreeConn
                   /\ attemptRequests' = <<>>
                   /\ UNCHANGED <<srvVars, reader>>
  /\ UNCHANGED <<pageSandbox, stopping>>
  /\ UNCHANGED sessVars
  /\ UNCHANGED otherThanCli

\* loadSandboxData, page.tsx lines 116-172, with startSandboxCreation up to
\* await fetch, lines 27-42 (a rejected fetch reaches the catch of lines
\* 94-97).
loadSandboxData ==
  /\ pagePc = "mounting"
  /\ IF route.sandboxId = TempId
     THEN IF ~creationState.present
          THEN /\ Run("loadSandboxData", 0, <<OpPush(Home)>>)
               /\ pageSandbox' = Null
               /\ UNCHANGED <<srvVars, reader, attemptRequests>>
          ELSE LET cs == creationState.state
               IN \/ /\ \E c \in Conns :
                          /\ FreeConn(c)
                          /\ Accept(c, PageBody(cs))
                          /\ reader' = [reader EXCEPT ![c] = NewReader("page")]
                     /\ attemptRequests' = Append(attemptRequests, "page")
                     /\ pageSandbox' = TempSandbox(cs)
                     /\ pagePc' = "loaded"
                     /\ lastRun' = [handler |-> "loadSandboxData", conn |-> 0,
                                    ops |-> <<>>, shown |-> ShownPage]
                     /\ UNCHANGED <<route, creationState, registry>>
                  \/ /\ NoFreeConn
                     /\ Run("startSandboxCreation", 0, <<OpPush(Home)>>)
                     /\ pageSandbox' = Null
                     /\ UNCHANGED <<srvVars, reader, attemptRequests>>
     ELSE LET d == getSandbox(route.sandboxId)
          IN IF d # Null
             THEN /\ pageSandbox' = d
                  /\ pagePc' = "loaded"
                  /\ lastRun' = [handler |-> "loadSandboxData", conn |-> 0,
                                 ops |-> <<>>, shown |-> ShownPage]
                  /\ UNCHANGED <<route, creationState, registry, srvVars,
                                 reader, attemptRequests>>
             ELSE /\ Run("loadSandboxData", 0, <<OpPush(Home)>>)
                  /\ pageSandbox' = Null
                  /\ UNCHANGED <<srvVars, reader, attemptRequests>>
  /\ UNCHANGED stopping
  /\ UNCHANGED sessVars
  /\ UNCHANGED otherThanCli

\* data.type === 'data' && data.id === 'sandbox-info' && data.data.success
\* && data.data.sandbox
CarriesSandbox(f) ==
  /\ f.type = "data"
  /\ f.id = "sandbox-info"
  /\ f.data.success

\* The read loop, lines 57-85 (296-326 in the form).  Its turns write only
\* the text shown and the local sandboxData, so they are taken together, at
\* the end of the stream.  The bytes reach the client in chunks cut
\* anywhere: cut tells that a chunk ends inside the line of the last frame,
\* and then neither part of that line parses.  sandboxData is the sandbox
\* of the last frame parsed that carries one.
ParsedSandbox(fs, cut) ==
  LET whole == 1..(IF cut THEN Len(fs) - 1 ELSE Len(fs))
      found == {i \in whole : CarriesSandbox(fs[i])}
      last == CHOOSE i \in found : \A j \in found : j <= i
  IN IF found = {} THEN Null ELSE fs[last].data.sandbox

\* sandboxData && sandboxData.id
HasRealId(d) == d # Null /\ Truthy(d.id)

\* Lines 90-92 with the creation state left in place.
CompletionOpsKeepingCreationState(d) ==
  <<OpSetSandbox(d), OpReplace(d.id.v)>>

\* page.tsx lines 90-92 and create-sandbox.tsx lines 352-354.
CompletionOps(d) ==
  <<OpSetSandbox(d), OpClearCreationState, OpReplace(d.id.v)>>

\* create-sandbox.tsx lines 333-341: the session record the form saves.
FormSessionInfo(d) ==
  LET list == getSessions(selectedTool)
      i == FindIndex(list, d.session.id.v, 1)
  IN [ sessionId |-> d.session.id.v, sandboxId |-> d.id.v,
       createdAt |-> IF Truthy(d.session.resumed) /\ i > 0
                     THEN list[i].createdAt ELSE now,
       lastUsedAt |-> now ]

\* The stream is read to its end and the code after the loop runs:
\* page.tsx lines 57-93, create-sandbox.tsx lines 296-356.
ReadStream(c, cut) ==
  /\ reader[c].owner # "none"
  /\ ~reader[c].done
  /\ spc[c] = "closed"
  /\ LET d == ParsedSandbox(frames[c], cut)
     IN /\ reader' = [reader EXCEPT ![c].sandboxData = d, ![c].done = TRUE]
        /\ IF reader[c].owner = "page"
           THEN /\ IF HasRealId(d)
                   THEN /\ Run("startSandboxCreation", c, CompletionOps(d))
                        /\ pageSandbox' = IF pagePc # "none" THEN d ELSE Null
                   ELSE /\ Run("startSandboxCreation", c, <<>>)
                        /\ UNCHANGED pageSandbox
                /\ UNCHANGED <<sessions, latest>>
           ELSE /\ IF HasRealId(d)
                   THEN Run("handleCreateSandboxClick", c, CompletionOps(d))
                   ELSE Run("handleCreateSandboxClick", c, <<>>)
                /\ IF HasRealId(d) /\ Truthy(d.session.id)
                   THEN saveSession(selectedTool, FormSessionInfo(d))
                   ELSE UNCHANGED <<sessions, latest>>
                /\ UNCHANGED pageSandbox
  /\ UNCHANGED <<srvVars, stopping, now, resaves, selectedTool, toolChanges,
                 attemptRequests>>
  /\ UNCHANGED otherThanCli

\* router.replace of page.tsx line 92 starts a navigation.  Until the page
\* of the new route has mounted and run its load effect, the page that ran
\* startSandboxCreation stays on the screen, with the descriptor in its
\* state and the creating-* id as its sandboxId.
NavigationPending ==
  /\ pagePc = "mounting"
  /\ lastRun.handler = "startSandboxCreation"
  /\ lastRun.shown.loaded
  /\ lastRun.shown.sandboxId = TempId
  /\ HasRealId(pageSandbox)

\* const sandboxId = params.sandboxId of the page on the screen.
PageSandboxId ==
  IF NavigationPending THEN lastRun.shown.sandboxId ELSE route.sandboxId

\* handleNewSandbox, page.tsx lines 206-211.
handleNewSandbox ==
  /\ pagePc = "loaded" \/ NavigationPending
  /\ Run("handleNewSandbox", 0,
         <<OpRemoveSandbox(PageSandboxId), OpClearCreationState,
           OpPush(Home)>>)
  /\ pageSandbox' = Null
  /\ UNCHANGED <<stopping, reader, attemptRequests>>
  /\ UNCHANGED <<srvVars, sessVars>>
  /\ UNCHANGED otherThanCli

\* handleStopSandbox up to await fetch, lines 214-221.
handleStopSandbox ==
  /\ pagePc = "loaded" \/ NavigationPending
  /\ HasRealId(pageSandbox)
  /\ ~stopping.active
  /\ stopping' = [active |-> TRUE, id |-> pageSandbox.id.v,
                   key |-> PageSandboxId]
  /\ UNCHANGED <<route, creationState, registry, pageSandbox, pagePc, reader,
                 lastRun, attemptRequests>>
  /\ UNCHANGED <<srvVars, sessVars>>
  /\ UNCHANGED otherThanCli

\* page.tsx lines 225-227, 232-234 and 239-241: the same three calls in the
\* ok branch, the non-ok branch and the catch.
StopOps(sandboxId) ==
  <<OpRemoveSandbox(sandboxId), OpClearCreationState, OpPush(Home)>>

\* handleStopSandbox after the fetch settled, lines 223-244: whatever the
\* answer, the sandbox is removed, the creation state cleared, home pushed.
StopSettled ==
  /\ stopping.active
  /\ Run("handleStopSandbox", 0, StopOps(stopping.key))
  /\ stopping' = NoStop
  /\ pageSandbox' = Null
  /\ UNCHANGED <<reader, attemptRequests>>
  /\ UNCHANGED <<srvVars, sessVars>>
  /\ UNCHANGED otherThanCli

CliInit ==
  /\ route = Home
  /\ creationState = NoCreationState
  /\ registry = [id \in RegistryKeys |-> NoSandboxItem]
  /\ pageSandbox = Null
  /\ pagePc = "none"
  /\ stopping = NoStop
  /\ reader = [c \in Conns |-> NoReader]
  /\ lastRun = [handler |-> "none", conn |-> 0, ops |-> <<>>,
                shown |-> [sandboxId |-> "", loaded |-> FALSE]]
  /\ attemptRequests = <<>>

\* What the runtime does to the requests of the browser application.
CreationThrown == [isError |-> TRUE, message |-> "sandbox unavailable"]

CreationTestResults ==
  { [exitCode |-> 0,
     stdout |-> JsonText("{chat_id:chat-1}", JObj([chat_id |-> "chat-1"])),
     stderr |-> EmptyText],
    [exitCode |-> 1, stdout |-> EmptyText,
     stderr |-> PlainText("command not found")] }

CreationServerStep(c) ==
  \/ Validate(c)
  \/ CreateThrows(c, CreationThrown)
  \/ CreateReturns(c)
  \/ InstallReturns(c, 0)
  \/ TestThrows(c, CreationThrown)
  \/ \E r \in CreationTestResults : TestReturns(c, r)

(***************************************************************************)
(* The setup tasks of the chat component, use-setup-tasks.ts.  The page    *)
(* passes the hook its sandbox prop and the text accumulated from the      *)
(* setup stream; the hook keeps a list of tasks and updates it in two      *)
(* effects, one reading the sandbox prop and one reading the text.         *)
(***************************************************************************)
TaskIds == <<"create-sandbox", "install-tool", "test-connection">>

SetupTask(id, status) == [id |-> id, status |-> status]

\* Lines 42-61.
initialTasks ==
  << SetupTask("create-sandbox", "in-progress"),
     SetupTask("install-tool", "pending"),
     SetupTask("test-connection", "pending") >>

\* The substrings the hook searches the text for, and the ones each line of
\* the orchestrator holds.  The tool's display name in a line is the one of
\* the request, which is the sandbox prop's toolName.
LineIncludes(tpl) ==
  CASE tpl = "creating-sandbox" -> {"Creating Vercel Sandbox"}
    [] tpl = "sandbox-created" -> {"Sandbox created successfully"}
    [] tpl = "installing" -> {"Installing tool"}
    [] tpl = "installed-ok" -> {"tool installed successfully"}
    [] tpl = "installed-with-warnings" ->
         {"Installation completed with warnings"}
    [] tpl \in {"testing-new", "testing-resuming"} ->
         {"Testing tool Connection"}
    [] tpl = "test-ok" -> {"tool is working perfectly!"}
    [] tpl = "test-failed" -> {"cross mark", "tool test failed"}
    [] tpl = "setup-error" -> {"cross mark", "setup"}
    [] tpl \in {"setup-failed", "api-key-required", "valid-tool-required"} ->
         {"cross mark"}
    [] OTHER -> {}

\* streamingMessages after the first n frames of the stream, page.tsx lines
\* 69-73: the deltas of the text-delta frames, appended in order; here the
\* set of searched substrings the text includes.
StreamingMessages(c, n) ==
  UNION { LineIncludes(frames[c][i].delta) :
            i \in {j \in 1..n : frames[c][j].type = "text-delta"} }

\* The update of one task from the text, lines 142-240.
StreamedStatus(task, text) ==
  CASE task.id = "create-sandbox" ->
         IF "Sandbox created successfully" \in text THEN "completed"
         ELSE IF "Creating Vercel Sandbox" \in text THEN "in-progress"
         ELSE task.status
    [] task.id = "install-tool" ->
         IF "tool installed successfully" \in text THEN "completed"
         ELSE IF "Installation completed with warnings" \in text
           THEN "completed"
         ELSE IF "Installing tool" \in text THEN "in-progress"
         ELSE IF "cross mark" \in text /\ "setup" \in text THEN "failed"
         ELSE task.status
    [] task.id = "test-connection" ->
         IF "tool is working perfectly!" \in text THEN "completed"
         ELSE IF "tool test failed" \in text THEN "failed"
         ELSE IF "Testing tool Connection" \in text THEN "in-progress"
         ELSE task.status
    [] OTHER -> task.status

\* The second effect, lines 139-244.
StreamedUpdate(prev, text) ==
  IF text = {} \/ Len(prev) = 0 THEN prev
  ELSE [i \in DOMAIN prev |->
          SetupTask(prev[i].id, StreamedStatus(prev[i], text))]

\* The update of one task from the descriptor's verification results,
\* lines 66-128.
DescriptorStatus(task, v) ==
  LET toolInstalled == v.installed
      envConfigured == v.configured
      hasError == v.error.kind # "none"
  IN CASE task.id = "create-sandbox" -> "completed"
       [] task.id = "install-tool" ->
            IF hasError /\ ~toolInstalled THEN "failed"
            ELSE IF toolInstalled THEN "completed"
            ELSE "in-progress"
       [] task.id = "test-connection" ->
            IF hasError /\ toolInstalled THEN "failed"
            ELSE IF toolInstalled /\ envConfigured THEN "completed"
            ELSE IF toolInstalled THEN "in-progress"
            ELSE task.status
       [] OTHER -> task.status

\* The first effect with a sandbox prop that has an id, lines 64-135.
DescriptorUpdate(prev, v) ==
  [i \in DOMAIN prev |-> SetupTask(prev[i].id, DescriptorStatus(prev[i], v))]

Settle(old, tasks) ==
  [i \in DOMAIN tasks |->
     IF old[i] = "none" /\ tasks[i].status \in {"completed", "failed"}
     THEN tasks[i].status ELSE old[i]]

SetTasks(tasks) ==
  /\ setupTasks' = tasks
  /\ settled' = Settle(settled, tasks)

\* The creation states the chat page starts from, one per tool.
TaskCreationStates ==
  { [FormCreationState("sk-1", resume) EXCEPT
       !.tool = t, !.toolName = getAIToolConfig(t).displayName] :
      t \in AITools, resume \in BOOLEAN }

\* page.tsx lines 129-145 and 34-41: the page shows the temporary sandbox,
\* which has no id, and posts the creation state; the hook's first effect
\* sets the initial tasks.
StartSetup(cs) ==
  /\ sandboxProp = "none"
  /\ Accept(1, PageBody(cs))
  /\ sandboxProp' = "temp"
  /\ SetTasks(initialTasks)
  /\ UNCHANGED streamed
  /\ UNCHANGED <<sessVars, cliVars>>
  /\ UNCHANGED otherThanTask

\* page.tsx lines 52-85: the read loop has taken the frames up to the n-th
\* and set streamingMessages; the second effect runs.
RenderText(n) ==
  /\ sandboxProp = "temp"
  /\ streamed < n
  /\ n <= Len(frames[1])
  /\ frames[1][n].type = "text-delta"
  /\ streamed' = n
  /\ SetTasks(StreamedUpdate(setupTasks, StreamingMessages(1, n)))
  /\ UNCHANGED sandboxProp
  /\ UNCHANGED <<srvVars, sessVars, cliVars>>
  /\ UNCHANGED otherThanTask

StreamHasDescriptor ==
  /\ spc[1] = "closed"
  /\ frames[1] # <<>>
  /\ frames[1][Len(frames[1])].type = "data"
  /\ frames[1][Len(frames[1])].id = "sandbox-info"

DescriptorVerification == frames[1][Len(frames[1])].data.sandbox.verification

\* page.tsx lines 87-93: the stream has ended with a descriptor and
\* setSandbox(sandboxData) is rendered after the last text, so the first
\* effect runs alone.
RenderDescriptor ==
  /\ sandboxProp = "temp"
  /\ StreamHasDescriptor
  /\ streamed = Len(frames[1]) - 1
  /\ sandboxProp' = "descriptor"
  /\ SetTasks(DescriptorUpdate(setupTasks, DescriptorVerification))
  /\ UNCHANGED streamed
  /\ UNCHANGED <<srvVars, sessVars, cliVars>>
  /\ UNCHANGED otherThanTask

\* The same with the last text and the descriptor in one render: both
\* effects run, the first before the second, and their updates are applied
\* in that order.
RenderTextAndDescriptor ==
  /\ sandboxProp = "temp"
  /\ StreamHasDescriptor
  /\ streamed < Len(frames[1]) - 1
  /\ streamed' = Len(frames[1]) - 1
  /\ sandboxProp' = "descriptor"
  /\ SetTasks(StreamedUpdate(
                DescriptorUpdate(setupTasks, DescriptorVerification),
                StreamingMessages(1, Len(frames[1]))))
  /\ UNCHANGED <<srvVars, sessVars, cliVars>>
  /\ UNCHANGED otherThanTask

\* page.tsx lines 146-150, after router.replace: the page reads the
\* descriptor back from storage and sets it as a new object, so the first
\* effect runs again.
ReloadDescriptor ==
  /\ sandboxProp = "descriptor"
  /\ sandboxProp' = "reloaded"
  /\ SetTasks(DescriptorUpdate(setupTasks, DescriptorVerification))
  /\ UNCHANGED streamed
  /\ UNCHANGED <<srvVars, sessVars, cliVars>>
  /\ UNCHANGED otherThanTask

TaskInit ==
  /\ setupTasks = <<>>
  /\ streamed = 0
  /\ sandboxProp = "none"
  /\ settled = [i \in DOMAIN TaskIds |-> "none"]

(***************************************************************************)
(* The expiry timer of the chat view: the timer effect of the chat page,   *)
(* page.tsx lines 174-203, and of the app container, app-container.tsx     *)
(* lines 68-99.  The effect runs updateTimer when the descriptor is shown  *)
(* and then every second.                                                  *)
(***************************************************************************)
TimerHosts == {"page", "app-container"}

NoTimerSandbox == [shown |-> FALSE]

\* createdAt is the ISO string of the orchestrator, read back with
\* new Date(createdAt).getTime(): toISOString keeps the milliseconds, so the
\* descriptor carries the instant itself.
TimerCreatedAt == {0, 1000}

TimerTimeouts == {MIN_SANDBOX_ALIVE_TIME_MS, DEFAULT_SANDBOX_ALIVE_TIME_MS}

TimerDescriptors ==
  { [id |-> Str(SandboxIds[1]), createdAt |-> t0, timeoutMs |-> d] :
      t0 \in TimerCreatedAt, d \in TimerTimeouts }

\* The instants the browser's clock is looked at, around the expiry.
ExpiryOffsets == {-1000, -1, 0, 1, 1000}

expiryTime(sb) == sb.createdAt + sb.timeoutMs

\* page.tsx lines 87-92 (the descriptor of a finished creation is shown and
\* stored) and app-container.tsx lines 117-125 (handleSandboxCreated).
ShowSandbox(host, sb) ==
  /\ ~timerSandbox.shown
  /\ timerSandbox' = [shown |-> TRUE, host |-> host, sandbox |-> sb]
  /\ IF host = "page"
     THEN /\ Run("startSandboxCreation", 0, CompletionOps(sb))
          /\ pageSandbox' = sb
          /\ UNCHANGED <<stopping, reader, attemptRequests>>
     ELSE UNCHANGED cliVars
  /\ UNCHANGED <<clock, remainingTimeMs, isExpired, checkedAt>>
  /\ UNCHANGED <<srvVars, sessVars>>
  /\ UNCHANGED otherThanTimer

\* Time passes in the browser.
Advance(t) ==
  /\ timerSandbox.shown
  /\ t > clock
  /\ clock' = t
  /\ UNCHANGED <<timerSandbox, remainingTimeMs, isExpired, checkedAt>>
  /\ UNCHANGED <<srvVars, sessVars, cliVars>>
  /\ UNCHANGED otherThanTimer

\* updateTimer, page.tsx lines 183-196 and app-container.tsx lines 78-90:
\* only the page removes the expired descriptor from storage.  The interval
\* is cleared when the page is left (line 202).
updateTimer ==
  /\ timerSandbox.shown
  /\ timerSandbox.host = "page" => route.page = "chat"
  /\ timerSandbox.sandbox.timeoutMs # 0
  /\ LET now_ == clock
         remaining == expiryTime(timerSandbox.sandbox) - now_
     IN IF remaining <= 0
        THEN /\ remainingTimeMs' = Null
             /\ isExpired' = TRUE
             /\ IF timerSandbox.host = "page"
                THEN /\ Run("updateTimer", 0,
                            <<OpRemoveSandbox(route.sandboxId)>>)
                     /\ UNCHANGED <<pageSandbox, stopping, reader,
                                    attemptRequests>>
                ELSE UNCHANGED cliVars
        ELSE /\ remainingTimeMs' = Num(remaining)
             /\ isExpired' = FALSE
             /\ UNCHANGED cliVars
  /\ checkedAt' = clock
  /\ UNCHANGED <<clock, timerSandbox>>
  /\ UNCHANGED <<srvVars, sessVars>>
  /\ UNCHANGED otherThanTimer

TimerInit ==
  /\ clock = 0
  /\ timerSandbox = NoTimerSandbox
  /\ remainingTimeMs = Null
  /\ isExpired = FALSE
  /\ checkedAt = -1

(***************************************************************************)
(* The read loops of the clients: the chat page and the creation form on   *)
(* the setup stream (page.tsx lines 52-85, create-sandbox.tsx lines        *)
(* 290-327), and the chat component on the chat and terminal streams       *)
(* (part_011 lines 169-200 and 277-323).  A stream is the bytes            *)
(* `data: ${json}\n\n` of its frames; the transport hands them to the loop *)
(* in chunks cut anywhere.                                                 *)
(***************************************************************************)
StreamKinds == {"setup", "chat", "terminal"}

MetadataFrame(type, data) == [type |-> type, data |-> data]

\* One stream of each kind, as its route writes it.
StreamOf(kind) ==
  CASE kind = "setup" ->
         << TextDelta("setup-tasks", "setting-up"),
            TextDelta("setup-tasks", "setup-complete"),
            DataFrame("sandbox-info",
                      [success |-> TRUE, sandbox |-> [id |-> Str("sbx_1")]]) >>
    [] kind = "chat" ->
         << TextDelta("text-chunk", "response"),
            MetadataFrame("data-session-metadata",
                          [sessionId |-> Str("s1"), exitCode |-> 0]) >>
    [] kind = "terminal" ->
         << TextDelta("terminal-output", "command-echo"),
            TextDelta("terminal-output", "exit-code"),
            DataFrame("terminal-result",
                      [success |-> TRUE,
                       result |-> [command |-> "ls", exitCode |-> 0]]) >>

\* The bytes of one frame, in the pieces a cut can separate: the prefix
\* "data: ", the JSON text in two parts, and the two newlines.
WireParts == <<"data: ", "json-head", "json-tail", "nl", "nl">>

Wire(fs) ==
  [k \in 1..(Len(WireParts) * Len(fs)) |->
     [f |-> ((k - 1) \div Len(WireParts)) + 1,
      part |-> WireParts[((k - 1) % Len(WireParts)) + 1]]]

\* chunk.split('\n'): cur is the line being collected.
RECURSIVE SplitLines(_, _)
SplitLines(chunk, cur) ==
  IF chunk = <<>> THEN <<cur>>
  ELSE IF Head(chunk).part = "nl"
    THEN <<cur>> \o SplitLines(Tail(chunk), <<>>)
    ELSE SplitLines(Tail(chunk), Append(cur, Head(chunk)))

\* line.startsWith('data: ')
StartsWithData(line) == line # <<>> /\ line[1].part = "data: "

\* JSON.parse(line.slice(6)): the text of a frame parses when all of it is
\* there, and throws on a part of it or on nothing.
JsonParses(line) ==
  /\ Len(line) = 3
  /\ line[2].part = "json-head"
  /\ line[3].part = "json-tail"

NoPayload == [present |-> FALSE]

Payload(d) == [present |-> TRUE, data |-> d]

NothingReceived == [text |-> <<>>, payload |-> NoPayload]

\* What a loop does with one parsed frame.
HandleFrame(kind, acc, frame) ==
  CASE kind = "setup" ->
         IF frame.type = "text-delta"
         THEN [acc EXCEPT !.text = Append(@, frame.delta)]
         ELSE IF frame.type = "data" /\ frame.id = "sandbox-info"
                 /\ frame.data.success
           THEN [acc EXCEPT !.payload = Payload(frame.data.sandbox)]
           ELSE acc
    [] kind = "chat" ->
         IF frame.type = "text-delta"
         THEN [acc EXCEPT !.text = Append(@, frame.delta)]
         ELSE IF frame.type \in {"data-session-metadata",
                                 "data-error-metadata"}
           THEN [acc EXCEPT !.payload = Payload(frame.data)]
           ELSE acc
    [] kind = "terminal" ->
         IF frame.type = "data" /\ frame.id = "terminal-result"
         THEN [acc EXCEPT !.payload = Payload(frame.data.result)]
         ELSE acc

\* for (const line of lines): a line that does not start with the prefix is
\* skipped, and one whose text does not parse is dropped in the catch.
RECURSIVE HandleLines(_, _, _)
HandleLines(kind, acc, lines) ==
  IF lines = <<>> THEN acc
  ELSE LET line == Head(lines)
           next == IF StartsWithData(line) /\ JsonParses(line)
                   THEN HandleFrame(kind, acc, StreamOf(kind)[line[1].f])
                   ELSE acc
       IN HandleLines(kind, next, Tail(lines))

NotChunking == [kind |-> "none", cuts |-> {}, sent |-> 0]

CutPoints(kind) == 1..(Len(Wire(StreamOf(kind))) - 1)

CutSets(kind) ==
  {cs \in SUBSET CutPoints(kind) : Cardinality(cs) <= MaxCuts}

\* The response of a route starts arriving, cut into chunks at cuts.
StartStream(kind, cuts) ==
  /\ chunking.kind = "none"
  /\ chunking' = [kind |-> kind, cuts |-> cuts, sent |-> 0]
  /\ received' = NothingReceived
  /\ UNCHANGED otherThanChunk

NextChunkEnd ==
  LET n == Len(Wire(StreamOf(chunking.kind)))
      ends == {c \in chunking.cuts : c > chunking.sent} \cup {n}
  IN CHOOSE e \in ends : \A o \in ends : e <= o

\* One turn of the loop: reader.read() gives the next chunk, which is
\* split into lines and handled.
ReadChunk ==
  /\ chunking.kind # "none"
  /\ chunking.sent < Len(Wire(StreamOf(chunking.kind)))
  /\ LET chunk == SubSeq(Wire(StreamOf(chunking.kind)),
                         chunking.sent + 1, NextChunkEnd)
     IN received' = HandleLines(chunking.kind, received,
                                SplitLines(chunk, <<>>))
  /\ chunking' = [chunking EXCEPT !.sent = NextChunkEnd]
  /\ UNCHANGED otherThanChunk

ChunkInit ==
  /\ chunking = NotChunking
  /\ received = NothingReceived

(***************************************************************************)
(* The session id extractors of src/lib/ai-tools-config.ts called on any   *)
(* response.                                                               *)
(***************************************************************************)
IdKeys == {"session_id", "chat_id", "id"}

IdFieldValues == {"v1", "", UnprintableObject}

\* Objects with any of the id keys, each holding any of the values.
ObjectSamples ==
  UNION { {JObj(o) : o \in [keys -> IdFieldValues]} : keys \in SUBSET IdKeys }

ArraySamples ==
  { JArr(<<>>),
    JArr(<<JNull, JObj([session_id |-> "v1"])>>),
    JArr(<<JObj([type |-> "system"]), JObj([chat_id |-> "", id |-> "v1"])>>),
    JArr(<<JNum(1), JObj([id |-> UnprintableObject])>>) }

ParsedSamples == ObjectSamples \cup ArraySamples \cup {JNull, JNum(7)}

\* Strings: not JSON (among them the empty string), and the JSON text of
\* each value above.
ResponseSamples ==
  ParsedSamples
    \cup {ResponseString(EmptyText), ResponseString(PlainText("not json"))}
    \cup {ResponseString(JsonText("json", j)) : j \in ParsedSamples}

NoExtraction == [called |-> FALSE]

CallExtractSessionId(tool, response) ==
  /\ extraction' = [ called |-> TRUE, tool |-> tool, response |-> response,
                     outcome |-> extractSessionId(tool, response) ]
  /\ UNCHANGED otherThanExtract

ExtractInit == extraction = NoExtraction

(***************************************************************************)
(* The relay routes of a sandbox: chat (part_004 lines 190-387), terminal  *)
(* (src/app/api/sandbox/[id]/terminal/route.ts, a JSON variant in lines    *)
(* 1-74 and a streaming variant in lines 75-258) and stop                  *)
(* (src/app/api/sandbox/[id]/stop/route.ts).  A handler keeps nothing      *)
(* between requests, so each is one step from a request and what the       *)
(* runtime does to it to a response and the calls made.                    *)
(***************************************************************************)
JsonResponse(status, json) ==
  [status |-> status, kind |-> "json", json |-> json, frames |-> <<>>]

\* A streamed response: status 200 and the frames written.
StreamResponse(fs) ==
  [status |-> 200, kind |-> "stream", json |-> [streamed |-> TRUE],
   frames |-> fs]

Outcome(response, calls) == [response |-> response, calls |-> calls]

GetCall(id) == [op |-> "Sandbox.get", sandboxId |-> id]

StopCall(id) == [op |-> "stop", sandboxId |-> id]

RunCall(call) == [op |-> "runCommand", call |-> call]

\* What the runtime does to one request: whether Sandbox.get resolves the
\* id, whether the call made on the sandbox throws, and the result of the
\* command otherwise.
RelayIds == {SandboxIds[1], "sbx_gone"}

RelayStdoutSamples ==
  StdoutSamples \cup
    { JsonText("null", JNull),
      JsonText("{session_id:{toString:1}}",
               JObj([session_id |-> UnprintableObject])) }

ChatRuntimes ==
  [ resolves : BOOLEAN, runThrows : BOOLEAN,
    result : [exitCode : ExitCodes, stdout : RelayStdoutSamples,
              stderr : StderrSamples] ]

\* ---- chat ----
MessageList(ms) == [t |-> "array", v |-> ms]

UserMessage(content) == [role |-> "user", content |-> content]

AssistantMessage(content) == [role |-> "assistant", content |-> content]

MessagesSamples ==
  { Undef, MessageList(<<>>),
    MessageList(<<UserMessage("hi")>>),
    MessageList(<<UserMessage("hi"), AssistantMessage("yo")>>),
    MessageList(<<AssistantMessage("yo"), UserMessage(" ")>>),
    MessageList(<<UserMessage("hi"), UserMessage("hi there")>>) }

NoChatBody ==
  [ok |-> FALSE, messages |-> Undef, tool |-> Undef, apiKey |-> Undef,
   sessionId |-> Undef]

ChatBodies ==
  {NoChatBody} \cup
  [ ok : {TRUE}, messages : MessagesSamples, tool : ToolSamples,
    apiKey : {Undef, Str("sk-1")}, sessionId : SessionIdSamples ]

\* Lines 216-223: the content of the last message when its role is user.
ChatPrompt(ms) ==
  IF ms.t = "array" /\ Len(ms.v) > 0 /\ ms.v[Len(ms.v)].role = "user"
  THEN ms.v[Len(ms.v)].content
  ELSE ""

\* The arguments with the continue form whatever the session id.
ChatCommandArgsAlwaysContinuing(tool, sessionId, prompt) ==
  getContinueCommand(tool) \o <<"-p", prompt>>

\* Lines 247-260.
ChatCommandArgs(tool, sessionId, prompt) ==
  IF Truthy(sessionId)
  THEN getResumeCommand(tool, sessionId.v) \o <<"-p", prompt>>
  ELSE getContinueCommand(tool) \o <<"-p", prompt>>

\* Lines 268-273: an argument with a space, a quote, & or | is put in single
\* quotes.
EscapeArg(arg) ==
  IF arg \in {"hi there"} THEN "'" \o arg \o "'" ELSE arg

\* Lines 264-294.
ChatInvocationCall(tool, apiKey, commandArgs) ==
  IF tool = "claude-code"
  THEN [ cmd |-> "bash",
         script |-> [env |-> getAIToolConfig(tool).apiKeyEnvVar, key |-> apiKey],
         args |-> [i \in DOMAIN commandArgs |-> EscapeArg(commandArgs[i])],
         sudo |-> FALSE ]
  ELSE [ cmd |-> "cursor-agent",
         script |-> [env |-> "", key |-> ""],
         args |-> [i \in DOMAIN commandArgs |->
                     IF commandArgs[i] = "CURSOR_API_KEY_PLACEHOLDER"
                     THEN apiKey ELSE commandArgs[i]],
         sudo |-> FALSE ]

\* Truthiness of a parsed JSON value.
JsonTruthy(j) ==
  \/ j.k \in {"object", "array"}
  \/ j.k = "number" /\ j.n # 0

\* Lines 311-377: the stream for exit code 0.
ChatFrames(tool, r) ==
  LET promptOutput == r.stdout
      hasOutput == promptOutput.kind # "empty"
      parses == promptOutput.kind = "json"
      extracted == extractSessionId(tool, promptOutput.json)
  IN IF hasOutput /\ (~parses \/ extracted.threw)
     THEN << TextDelta("error-chunk", promptOutput.text),
             MetadataFrame("data-error-metadata",
                           [tool |-> tool, rawOutput |-> TRUE,
                            exitCode |-> r.exitCode]) >>
     ELSE LET parsedOutput == IF hasOutput THEN promptOutput.json ELSE JNull
              extractedSessionId ==
                IF hasOutput THEN extracted.value ELSE Null
              responseContent ==
                IF HasKey(parsedOutput, "result") /\ parsedOutput.o.result # ""
                THEN parsedOutput.o.result
                ELSE IF hasOutput THEN promptOutput.text
                ELSE "No response"
          IN <<TextDelta("text-chunk", responseContent)>> \o
             ( IF Truthy(extractedSessionId) \/ JsonTruthy(parsedOutput)
               THEN << MetadataFrame("data-session-metadata",
                                     [sessionId |-> extractedSessionId,
                                      tool |-> tool,
                                      exitCode |-> r.exitCode]) >>
               ELSE <<>> )

\* POST of the chat route, part_004 lines 190-387.
ChatRelay(id, b, rt) ==
  IF ~b.ok
  THEN Outcome(JsonResponse(500, [error |-> "Failed to process chat"]), <<>>)
  ELSE IF ~Truthy(b.tool) \/ b.tool \notin {Str("claude-code"), Str("cursor-cli")}
  THEN Outcome(JsonResponse(400, [error |-> "Valid AI tool is required"]),
               <<>>)
  ELSE IF ~Truthy(b.apiKey)
  THEN Outcome(JsonResponse(400, [error |-> "API key is required"]), <<>>)
  ELSE IF ChatPrompt(b.messages) = "" \/ Trim(ChatPrompt(b.messages)) = ""
  THEN Outcome(JsonResponse(400, [error |-> "No user message provided"]),
               <<>>)
  ELSE IF ~rt.resolves
  THEN Outcome(JsonResponse(404,
                            [error |-> "Sandbox not found or unavailable"]),
               <<GetCall(id)>>)
  ELSE LET call == ChatInvocationCall(
                     b.tool.v, b.apiKey.v,
                     ChatCommandArgs(b.tool.v, b.sessionId,
                                     ChatPrompt(b.messages)))
           calls == <<GetCall(id), RunCall(call)>>
       IN IF rt.runThrows
          THEN Outcome(JsonResponse(500, [error |-> "command failed"]), calls)
          ELSE IF rt.result.exitCode # 0
          THEN Outcome(JsonResponse(500, [error |-> "AI tool error"]), calls)
          ELSE Outcome(StreamResponse(ChatFrames(b.tool.v, rt.result)), calls)

\* ---- terminal ----
WhiteSpace == {" ", "\t"}

CommandAlphabet == {"l", "'"} \cup WhiteSpace

\* Command strings, as the sequences of their characters.
CommandStrings ==
  UNION { [1..n -> CommandAlphabet] : n \in 0..MaxCommandLen }

CommandSamples ==
  {Undef, Num("7")} \cup {Str(chars) : chars \in CommandStrings}

RECURSIVE trimStart(_)
trimStart(chars) ==
  IF chars # <<>> /\ Head(chars) \in WhiteSpace THEN trimStart(Tail(chars))
  ELSE chars

RECURSIVE trimEnd(_)
trimEnd(chars) ==
  IF chars # <<>> /\ chars[Len(chars)] \in WhiteSpace
  THEN trimEnd(SubSeq(chars, 1, Len(chars) - 1))
  ELSE chars

\* command.trim()
trim(chars) == trimEnd(trimStart(chars))

\* split(/\s/): every whitespace character ends a part.
RECURSIVE SplitOnEachWhitespace(_, _)
SplitOnEachWhitespace(chars, cur) ==
  IF chars = <<>> THEN <<cur>>
  ELSE IF Head(chars) \in WhiteSpace
    THEN <<cur>> \o SplitOnEachWhitespace(Tail(chars), <<>>)
    ELSE SplitOnEachWhitespace(Tail(chars), Append(cur, Head(chars)))

\* trimmedCommand.split(/\s+/): a run of whitespace ends a part; cur is the
\* part being collected.
RECURSIVE SplitOnWhitespaceRuns(_, _)
SplitOnWhitespaceRuns(chars, cur) ==
  IF chars = <<>> THEN <<cur>>
  ELSE IF Head(chars) \in WhiteSpace
    THEN <<cur>> \o SplitOnWhitespaceRuns(trimStart(chars), <<>>)
    ELSE SplitOnWhitespaceRuns(Tail(chars), Append(cur, Head(chars)))

\* Lines 38-51 and 156-175: cmd, args and the call.
TerminalCall(command) ==
  LET trimmedCommand == trim(command)
      parts == SplitOnWhitespaceRuns(trimmedCommand, <<>>)
  IN [cmd |-> parts[1], args |-> Tail(parts), sudo |-> FALSE]

\* !command || typeof command !== "string"
CommandRejected(command) == command.t # "string" \/ command.v = <<>>

TerminalResults ==
  { [exitCode |-> 0, stdout |-> PlainText("out"), stderr |-> EmptyText],
    [exitCode |-> 1, stdout |-> EmptyText,
     stderr |-> PlainText("command not found")] }

TerminalRuntimes ==
  [resolves : BOOLEAN, runThrows : BOOLEAN, result : TerminalResults]

TerminalBodies ==
  {[ok |-> FALSE, command |-> Undef]} \cup
  [ok : {TRUE}, command : CommandSamples]

TerminalResult(command, r) ==
  [ command |-> trim(command), exitCode |-> r.exitCode,
    stdout |-> r.stdout.text, stderr |-> r.stderr.text ]

\* POST of the JSON variant, lines 7-73.
TerminalRelay(id, b, rt) ==
  IF ~b.ok
  THEN Outcome(JsonResponse(500, [error |-> "Failed to execute command"]),
               <<>>)
  ELSE IF CommandRejected(b.command)
  THEN Outcome(JsonResponse(400, [error |-> "Command is required"]), <<>>)
  ELSE IF ~rt.resolves
  THEN Outcome(JsonResponse(404,
                            [error |-> "Sandbox not found or unavailable"]),
               <<GetCall(id)>>)
  ELSE LET calls == <<GetCall(id), RunCall(TerminalCall(b.command.v))>>
       IN IF rt.runThrows
          THEN Outcome(JsonResponse(500, [error |-> "command failed"]), calls)
          ELSE Outcome(JsonResponse(200,
                         [success |-> TRUE,
                          result |-> TerminalResult(b.command.v, rt.result)]),
                       calls)

ErrorInfo(message) == DataFrame("error-info", [error |-> message])

\* POST of the streaming variant, lines 80-258.
TerminalStreamRelay(id, b, rt) ==
  IF ~b.ok
  THEN Outcome(StreamResponse(<< TextDelta("terminal-output", "error"),
                                 ErrorInfo("Failed to execute command") >>),
               <<>>)
  ELSE IF CommandRejected(b.command)
  THEN Outcome(StreamResponse(<< TextDelta("error", "command-required"),
                                 ErrorInfo("Command is required") >>),
               <<>>)
  ELSE IF ~rt.resolves
  THEN Outcome(StreamResponse(
                 << TextDelta("terminal-output", "command-echo"),
                    TextDelta("terminal-output", "sandbox-not-found"),
                    ErrorInfo("Sandbox not found or unavailable") >>),
               <<GetCall(id)>>)
  ELSE LET calls == <<GetCall(id), RunCall(TerminalCall(b.command.v))>>
           started == << TextDelta("terminal-output", "command-echo"),
                         TextDelta("terminal-output", "connected"),
                         TextDelta("terminal-output", "executing") >>
           r == rt.result
       IN IF rt.runThrows
          THEN Outcome(StreamResponse(
                         started \o
                           << TextDelta("terminal-output", "error"),
                              ErrorInfo("command failed") >>),
                       calls)
          ELSE Outcome(StreamResponse(
                         started
                           \o (IF r.stdout.kind # "empty"
                               THEN <<TextDelta("terminal-output", "output")>>
                               ELSE <<>>)
                           \o (IF r.stderr.kind # "empty"
                               THEN <<TextDelta("terminal-output",
                                                "error-output")>>
                               ELSE <<>>)
                           \o << TextDelta("terminal-output", "exit-code"),
                                 DataFrame("terminal-result",
                                   [success |-> TRUE,
                                    result |->
                                      TerminalResult(b.command.v, r)]) >>),
                       calls)

\* ---- stop ----
StopRuntimes == [resolves : BOOLEAN, runThrows : BOOLEAN]

\* POST of the stop route, lines 7-40: whatever is thrown, by Sandbox.get or
\* by stop, reaches the one catch.
StopRelay(id, rt) ==
  IF id = ""
  THEN Outcome(JsonResponse(400, [success |-> FALSE,
                                  error |-> "Sandbox ID is required"]),
               <<>>)
  ELSE IF ~rt.resolves
  THEN Outcome(JsonResponse(500, [success |-> FALSE,
                                  error |-> "sandbox not found"]),
               <<GetCall(id)>>)
  ELSE IF rt.runThrows
  THEN Outcome(JsonResponse(500, [success |-> FALSE,
                                  error |-> "stop failed"]),
               <<GetCall(id), StopCall(id)>>)
  ELSE Outcome(JsonResponse(200, [success |-> TRUE]),
               <<GetCall(id), StopCall(id)>>)

\* ---- the requests ----
NoRelay == [route |-> "none"]

\* The runtime resolves the ids of live sandboxes only.
Resolves(id, rt) == rt.resolves <=> id = SandboxIds[1]

Handled(path, id, b, rt, out) ==
  /\ relay' = [ route |-> path, id |-> id, body |-> b, runtime |-> rt,
                response |-> out.response, calls |-> out.calls ]
  /\ UNCHANGED otherThanRelay

\* One request is followed from Init: a handler reads nothing an earlier
\* request left.
ChatPost ==
  /\ relay = NoRelay
  /\ \E id \in RelayIds, b \in ChatBodies, rt \in ChatRuntimes :
       /\ Resolves(id, rt)
       /\ Handled("chat", id, b, rt, ChatRelay(id, b, rt))

TerminalPost ==
  /\ relay = NoRelay
  /\ \E id \in RelayIds, b \in TerminalBodies, rt \in TerminalRuntimes :
       /\ Resolves(id, rt)
       /\ Handled("terminal", id, b, rt, TerminalRelay(id, b, rt))

TerminalStreamPost ==
  /\ relay = NoRelay
  /\ \E id \in RelayIds, b \in TerminalBodies, rt \in TerminalRuntimes :
       /\ Resolves(id, rt)
       /\ Handled("terminal-stream", id, b, rt,
                  TerminalStreamRelay(id, b, rt))

StopPost ==
  /\ relay = NoRelay
  /\ \E id \in RelayIds, rt \in StopRuntimes :
       /\ Resolves(id, rt)
       /\ Handled("stop", id, [ok |-> TRUE], rt, StopRelay(id, rt))

RelayInit == relay = NoRelay

(***************************************************************************)
(* The chat component of one tab, part_011 (SimpleChat) with the input of  *)
(* part_016 (ChatInput).  A submit event runs handleSubmit up to its       *)
(* fetch; React renders the state it set, and runs the effects of that     *)
(* render, before the next event is handled.  The rest of handleSubmit     *)
(* runs when the response has been read or the fetch has failed.           *)
(***************************************************************************)
InputSamples == {"", " ", "hi"}

ChatTool == "claude-code"

ChatSandboxIds == {Null, Str(SandboxIds[1])}

\* sandbox.session?.id of the descriptor shown: the provisional descriptor
\* carries none, the stored one carries the id found by the setup, if any.
ChatSessionIds(id) == IF id = Null THEN {Null} ELSE {Null, Str("s0")}

ChatMessage(role, type) == [role |-> role, type |-> type]

\* The characters of a submitted input.
CommandChars(text) == IF text = "hi" THEN <<"h", "i">> ELSE <<>>

\* part_011 lines 137-149: the message shown while the command runs.
LoadingMessage(loadingMessageId, command) ==
  [ role |-> "assistant", type |-> "terminal", id |-> loadingMessageId,
    terminalResult |-> [ command |-> command, exitCode |-> -1,
                         stdout |-> "", stderr |-> "" ] ]

\* part_011 lines 154-162, with the loadingMessageId its handler holds.
TerminalRequest(id, command, loadingMessageId) ==
  [ route |-> "terminal", id |-> id, body |-> [command |-> command],
    loadingMessageId |-> loadingMessageId ]

\* part_011 lines 270-282.
ChatRequest(id, content) ==
  [ route |-> "chat", id |-> id,
    body |-> [ tool |-> ChatTool, sessionId |-> currentSessionId,
               messages |-> <<[role |-> "user", content |-> content]>> ] ]

\* The effect of part_011 lines 74-78, run after a render in which
\* sandbox.session?.id or currentSessionId has changed: what
\* currentSessionId is after it.
InitializedSessionId(sessionId, current) ==
  IF Truthy(sessionId) /\ ~Truthy(current) THEN sessionId ELSE current

\* The component is shown for a sandbox, page.tsx lines 270-283.
ShowChat(id, sessionId) ==
  /\ chatSandbox = Undef
  /\ chatSandbox' = id
  /\ sandboxSessionId' = sessionId
  /\ currentSessionId' = InitializedSessionId(sessionId, currentSessionId)
  /\ UNCHANGED <<messages, isTerminalMode, input, isLoading, error,
                 outstanding, submitted, lastSubmit, sinceNewChat,
                 lastResponse>>
  /\ UNCHANGED sessVars
  /\ UNCHANGED otherThanChat

\* The creation finishes and the sandbox prop becomes the descriptor.
SandboxReady(sessionId) ==
  /\ chatSandbox = Null
  /\ chatSandbox' = Str(SandboxIds[1])
  /\ sandboxSessionId' = sessionId
  /\ currentSessionId' = InitializedSessionId(sessionId, currentSessionId)
  /\ UNCHANGED <<messages, isTerminalMode, input, isLoading, error,
                 outstanding, submitted, lastSubmit, sinceNewChat,
                 lastResponse>>
  /\ UNCHANGED sessVars
  /\ UNCHANGED otherThanChat

\* setInput from the text field.
setInput(text) ==
  /\ chatSandbox # Undef
  /\ input # text
  /\ input' = text
  /\ UNCHANGED <<chatSandbox, sandboxSessionId, messages, isTerminalMode,
                 isLoading, error, currentSessionId, outstanding, submitted,
                 lastSubmit, sinceNewChat, lastResponse>>
  /\ UNCHANGED sessVars
  /\ UNCHANGED otherThanChat

\* part_016 lines 44-46: the mode switch is disabled while loading.
isSwitchDisabled == isLoading

setIsTerminalMode(mode) ==
  /\ chatSandbox # Undef
  /\ ~isSwitchDisabled
  /\ isTerminalMode # mode
  /\ isTerminalMode' = mode
  /\ UNCHANGED <<chatSandbox, sandboxSessionId, messages, input, isLoading,
                 error, currentSessionId, outstanding, submitted, lastSubmit,
                 sinceNewChat, lastResponse>>
  /\ UNCHANGED sessVars
  /\ UNCHANGED otherThanChat

\* A guard that lets a submission through while a request is outstanding.
SubmitIgnoredWithoutLoadingCheck == Trim(input) = ""

\* part_011 line 120: if (!input.trim() || isLoading) return;
SubmitIgnored == Trim(input) = "" \/ isLoading

\* handleSubmit up to the fetch, part_011 lines 118-159 and 253-282.
handleSubmit ==
  /\ chatSandbox # Undef
  /\ IF SubmitIgnored
     THEN /\ lastSubmit' = "ignored"
          /\ UNCHANGED <<messages, input, isLoading, error, outstanding,
                         submitted>>
     ELSE LET currentInput == Trim(input)
              loadingMessageId == submitted + 1
          IN /\ submitted < MaxSubmits
             /\ submitted' = submitted + 1
             /\ IF isTerminalMode
                 THEN IF ~Truthy(chatSandbox)
                      THEN /\ error' = Str("Sandbox ID is missing")
                           /\ input' = currentInput
                           /\ isLoading' = FALSE
                           /\ lastSubmit' = "no-sandbox"
                           /\ UNCHANGED <<messages, outstanding>>
                      ELSE /\ input' = ""
                           /\ isLoading' = TRUE
                           /\ error' = Null
                           /\ messages' =
                                Append(messages,
                                       LoadingMessage(loadingMessageId,
                                                      currentInput))
                           /\ outstanding' =
                                Append(outstanding,
                                       TerminalRequest(chatSandbox.v,
                                                       currentInput,
                                                       loadingMessageId))
                           /\ lastSubmit' = "sent"
                 ELSE IF ~Truthy(chatSandbox)
                      THEN /\ messages' =
                                Append(messages, ChatMessage("user", "chat"))
                           /\ error' = Str("Sandbox ID is missing")
                           /\ input' = currentInput
                           /\ isLoading' = FALSE
                           /\ lastSubmit' = "no-sandbox"
                           /\ UNCHANGED outstanding
                      ELSE /\ input' = ""
                           /\ isLoading' = TRUE
                           /\ error' = Null
                           /\ messages' =
                                Append(messages, ChatMessage("user", "chat"))
                           /\ outstanding' =
                                Append(outstanding,
                                       ChatRequest(chatSandbox.v, currentInput))
                           /\ lastSubmit' = "sent"
  /\ UNCHANGED <<chatSandbox, sandboxSessionId, isTerminalMode,
                 currentSessionId, sinceNewChat, lastResponse>>
  /\ UNCHANGED sessVars
  /\ UNCHANGED otherThanChat

RemoveAt(q, i) == SubSeq(q, 1, i - 1) \o SubSeq(q, i + 1, Len(q))

\* What happens to a terminal request: the fetch is rejected or reaches one
\* of the two variants of the route, the runtime does what it does, and the
\* chunk that carries the last frame is cut inside it or not.
TerminalExchanges ==
  [ rejects : BOOLEAN, variant : {"json", "stream"},
    runtime : TerminalRuntimes, cut : BOOLEAN ]

\* The response of the terminal route to the request.
TerminalResponse(req, x) ==
  LET b == [ok |-> TRUE, command |-> Str(CommandChars(req.body.command))]
  IN IF x.variant = "json"
     THEN TerminalRelay(req.id, b, x.runtime).response
     ELSE TerminalStreamRelay(req.id, b, x.runtime).response

ThrownError(message) == [threw |-> TRUE, message |-> message]

\* part_011 lines 154-209: the terminal result read from the response, or
\* the error thrown on the way.
ReadTerminalResult(response, x) ==
  IF x.rejects THEN ThrownError("Failed to fetch")
  ELSE IF response.status \notin 200..299
  THEN ThrownError(response.json.error)
  ELSE LET fs == response.frames
           whole == 1..(IF x.cut /\ fs # <<>> THEN Len(fs) - 1 ELSE Len(fs))
           found == {i \in whole : /\ fs[i].type = "data"
                                   /\ fs[i].id = "terminal-result"}
           last == CHOOSE i \in found : \A j \in found : j <= i
       IN IF found = {}
          THEN ThrownError("No terminal result received from stream")
          ELSE Returned(fs[last].data.result)

\* Lines 231-242 leaving the placeholder's exit code in place.
FailedTerminalResultStillLoading(command, message) ==
  [command |-> command, exitCode |-> -1, stdout |-> "", stderr |-> message]

\* part_011 lines 231-242: the result shown for a failed request.
FailedTerminalResult(command, message) ==
  [command |-> command, exitCode |-> 1, stdout |-> "", stderr |-> message]

\* part_011 lines 217-220: { command: currentInput, ...terminalResult }.
ShownTerminalResult(command, terminalResult) ==
  [ command |-> terminalResult.command, exitCode |-> terminalResult.exitCode,
    stdout |-> terminalResult.stdout, stderr |-> terminalResult.stderr ]

\* prev.map(msg => msg.id === loadingMessageId ? {...msg, terminalResult}
\* : msg), lines 212-224 and 228-245.
ReplaceTerminalResult(prev, loadingMessageId, terminalResult) ==
  [ i \in DOMAIN prev |->
      IF prev[i].type = "terminal" /\ prev[i].id = loadingMessageId
      THEN [prev[i] EXCEPT !.terminalResult = terminalResult]
      ELSE prev[i] ]

\* The rest of handleSubmit for the i-th outstanding request when it is a
\* terminal request, part_011 lines 161-250 and 361.
handleTerminalResponse(i, x) ==
  /\ i \in DOMAIN outstanding
  /\ outstanding[i].route = "terminal"
  /\ LET req == outstanding[i]
         currentInput == req.body.command
         read == ReadTerminalResult(TerminalResponse(req, x), x)
     IN /\ IF read.threw
           THEN /\ messages' =
                     ReplaceTerminalResult(messages, req.loadingMessageId,
                       FailedTerminalResult(currentInput, read.message))
                /\ error' = Str(read.message)
                /\ input' = currentInput
           ELSE /\ messages' =
                     ReplaceTerminalResult(messages, req.loadingMessageId,
                       ShownTerminalResult(currentInput, read.value))
                /\ UNCHANGED <<input, error>>
        /\ lastResponse' = [route |-> "terminal",
                            result |-> x.runtime.result,
                            loadingMessageId |-> req.loadingMessageId,
                            read |-> read]
  /\ outstanding' = RemoveAt(outstanding, i)
  /\ isLoading' = FALSE
  /\ UNCHANGED <<chatSandbox, sandboxSessionId, isTerminalMode,
                 currentSessionId, submitted, lastSubmit, sinceNewChat>>
  /\ UNCHANGED sessVars
  /\ UNCHANGED otherThanChat

\* What comes back for a chat request: a stream read to its end, with or
\* without a session id in its metadata, or a failure (a response that is
\* not ok, a rejected fetch).
ResponseOutcomes == {"ok", "ok-with-session", "failed"}

\* The rest of handleSubmit for the i-th outstanding request when it is a
\* chat request, part_011 lines 283-361.
handleResponse(i, outcome) ==
  /\ i \in DOMAIN outstanding
  /\ outstanding[i].route = "chat"
  /\ LET req == outstanding[i]
     IN IF outcome = "failed"
        THEN /\ error' = Str("request failed")
             /\ input' = req.body.messages[1].content
             /\ UNCHANGED <<messages, currentSessionId, sessVars,
                            sinceNewChat>>
        ELSE /\ messages' =
                  Append(messages, ChatMessage("assistant", "chat"))
             /\ IF outcome = "ok-with-session"
                THEN /\ currentSessionId' = Str("s1")
                     /\ sinceNewChat' = FALSE
                     /\ saveSession(ChatTool,
                                    [ sessionId |-> "s1",
                                      sandboxId |-> req.id,
                                      createdAt |-> now,
                                      lastUsedAt |-> now ])
                     /\ UNCHANGED <<now, resaves, selectedTool,
                                    toolChanges>>
                ELSE UNCHANGED <<currentSessionId, sessVars, sinceNewChat>>
             /\ UNCHANGED <<input, error>>
  /\ lastResponse' = [route |-> "chat", outcome |-> outcome]
  /\ outstanding' = RemoveAt(outstanding, i)
  /\ isLoading' = FALSE
  /\ UNCHANGED <<chatSandbox, sandboxSessionId, isTerminalMode, submitted,
                 lastSubmit>>
  /\ UNCHANGED otherThanChat

\* handleNewChat, part_011 lines 364-368, and the effect of lines 74-78
\* that the render with the new currentSessionId runs.
handleNewChat ==
  /\ chatSandbox # Undef
  /\ messages' = <<>>
  /\ currentSessionId' = InitializedSessionId(sandboxSessionId, Null)
  /\ error' = Null
  /\ sinceNewChat' = TRUE
  /\ UNCHANGED <<chatSandbox, sandboxSessionId, isTerminalMode, input,
                 isLoading, outstanding, submitted, lastSubmit,
                 lastResponse>>
  /\ UNCHANGED sessVars
  /\ UNCHANGED otherThanChat

NoResponse == [route |-> "none"]

ChatInit ==
  /\ chatSandbox = Undef
  /\ sandboxSessionId = Undef
  /\ messages = <<>>
  /\ isTerminalMode = FALSE
  /\ input = ""
  /\ isLoading = FALSE
  /\ error = Null
  /\ currentSessionId = Null
  /\ outstanding = <<>>
  /\ submitted = 0
  /\ lastSubmit = "none"
  /\ sinceNewChat = FALSE
  /\ lastResponse = NoResponse

(***************************************************************************)
(* The hook useSandboxStorage on localStorage: use-sandbox-storage.ts      *)
(* lines 45-97 over the adapter of use-storage.ts (part_018).  A stored    *)
(* item is the text JSON.stringify wrote, named by the value JSON.parse    *)
(* reads from it.                                                          *)
(***************************************************************************)
CREATION_STATE_KEY == "sandbox-creation-state"

\* getSandboxStorageKey, lines 48-50: `sandbox-${sandboxId}`.
getSandboxStorageKey(sandboxId) == "sandbox-" \o sandboxId

\* The ids the hook is called with: the empty string, ids of the runtime,
\* and the last segment of the route /chat/creation-state.
StorageIds == {"", "sbx_1", "sbx_2", "creation-state"}

StorageKeys ==
  {getSandboxStorageKey(id) : id \in StorageIds} \cup {CREATION_STATE_KEY}

\* JSON.stringify and JSON.parse of the values the hook stores.
Stringify(value) == [json |-> value]
Parse(data) == data.json

\* localStorage.getItem / setItem / removeItem in a browser, part_018 lines
\* 10-23: getItem gives null for a key that is not set.
getItem(st, key) == IF st[key].present THEN st[key].data ELSE Null
setItem(st, key, value) == [st EXCEPT ![key] = [present |-> TRUE, data |-> value]]
removeItem(st, key) == [st EXCEPT ![key] = [present |-> FALSE]]

\* The body of getSandbox and of getCreationState, lines 53-59 and 72-78.
ParsedItem(st, key) ==
  LET data == getItem(st, key)
  IN IF data = Null THEN Null ELSE Parse(data)

\* Descriptors and creation states the hook is called with.
StorageSandboxes ==
  [ id : {Null} \cup {Str(id) : id \in StorageIds}, createdAt : {0, 1000},
    timeoutMs : {60000}, tool : {"cursor-cli"} ]

StorageCreationStates ==
  [ apiKey : {"sk-1"}, tool : {"cursor-cli"}, toolName : {"Cursor CLI"},
    prompt : {"hello", "again"}, resumeSession : {FALSE}, sessionId : {Null},
    aliveTimeMinutes : {5}, createdAt : {0} ]

\* One call of the hook: the new storage and the history of the call.
StorageCalled(op, arg, keys, result, st) ==
  /\ localStorage' = st
  /\ storageCall' = [op |-> op, arg |-> arg, keys |-> keys, result |-> result,
                     before |-> localStorage]

\* getSandbox, lines 52-60.
GetSandboxCall(sandboxId) ==
  LET key == getSandboxStorageKey(sandboxId)
  IN /\ StorageCalled("getSandbox", Str(sandboxId), {key},
                      ParsedItem(localStorage, key), localStorage)
     /\ UNCHANGED creationWritten
     /\ UNCHANGED otherThanStorage

\* setSandbox, lines 62-65.
setSandbox(sandbox) ==
  /\ IF ~Truthy(sandbox.id)
     THEN StorageCalled("setSandbox", sandbox, {}, Undef, localStorage)
     ELSE LET key == getSandboxStorageKey(sandbox.id.v)
          IN StorageCalled("setSandbox", sandbox, {key}, Undef,
                           setItem(localStorage, key, Stringify(sandbox)))
  /\ UNCHANGED creationWritten
  /\ UNCHANGED otherThanStorage

\* removeSandbox, lines 67-69.
removeSandbox(sandboxId) ==
  LET key == getSandboxStorageKey(sandboxId)
  IN /\ StorageCalled("removeSandbox", Str(sandboxId), {key}, Undef,
                      removeItem(localStorage, key))
     /\ UNCHANGED creationWritten
     /\ UNCHANGED otherThanStorage

\* getCreationState, lines 71-79.
getCreationState ==
  /\ StorageCalled("getCreationState", Undef, {CREATION_STATE_KEY},
                   ParsedItem(localStorage, CREATION_STATE_KEY), localStorage)
  /\ UNCHANGED creationWritten
  /\ UNCHANGED otherThanStorage

\* setCreationState, lines 81-83.
setCreationState(state) ==
  /\ StorageCalled("setCreationState", state, {CREATION_STATE_KEY}, Undef,
                   setItem(localStorage, CREATION_STATE_KEY, Stringify(state)))
  /\ creationWritten' = state
  /\ UNCHANGED otherThanStorage

\* clearCreationState, lines 85-87.
clearCreationState ==
  /\ StorageCalled("clearCreationState", Undef, {CREATION_STATE_KEY}, Undef,
                   removeItem(localStorage, CREATION_STATE_KEY))
  /\ creationWritten' = Null
  /\ UNCHANGED otherThanStorage

NoStorageCall ==
  [op |-> "none", arg |-> Undef, keys |-> {}, result |-> Undef,
   before |-> [key \in StorageKeys |-> [present |-> FALSE]]]

StorageInit ==
  /\ localStorage = [key \in StorageKeys |-> [present |-> FALSE]]
  /\ storageCall = NoStorageCall
  /\ creationWritten = Null

(***************************************************************************)
(* saveSession called in two tabs of one browser: use-session-storage.ts   *)
(* lines 19-41.  localStorage is shared by the tabs and each of its calls  *)
(* is atomic, but a tab's getItem (line 21, through getSessions) and its   *)
(* setItem (line 40) are two calls, and the other tab may run between.     *)
(***************************************************************************)
Tabs == {1, 2}

TabTool == "cursor-cli"

IdleTab == [pc |-> "idle", currentSessions |-> <<>>, session |-> Null]

NoWrite ==
  [tab |-> 0, session |-> Null, currentSessions |-> <<>>, overwritten |-> <<>>]

\* The ids a tab saves: one the store has not seen, or that of the record
\* stored last (a later turn of the chat used least recently).
TabSessionIds ==
  LET list == getSessions(TabTool)
  IN {tabSaves + 1} \cup
     {list[i].sessionId : i \in {j \in DOMAIN list : j = Len(list)
                                                    /\ resaves < MaxRevisits}}

OtherTabReading(tab) == \E other \in Tabs \ {tab} : tabs[other].pc = "read"

\* Lines 20-21: const currentSessions = getSessions(tool).  The record was
\* built by the caller just before; no two calls fall in one millisecond.
TabReads(tab, sessionId) ==
  /\ tabSaves < MaxTabSaves
  /\ tabs[tab].pc = "idle"
  /\ OtherTabReading(tab) => overlaps < MaxOverlaps
  /\ overlaps' = IF OtherTabReading(tab) THEN overlaps + 1 ELSE overlaps
  /\ tabs' = [tabs EXCEPT ![tab].pc = "read",
                          ![tab].currentSessions = getSessions(TabTool),
                          ![tab].session =
                            [ sessionId |-> sessionId, sandboxId |-> "sbx_1",
                              createdAt |-> now, lastUsedAt |-> now ]]
  /\ tabSaves' = tabSaves + 1
  /\ resaves' = IF sessionId = tabSaves + 1 THEN resaves ELSE resaves + 1
  /\ now' = now + 1
  /\ UNCHANGED lastWrite
  /\ UNCHANGED <<sessions, latest, selectedTool, toolChanges>>
  /\ UNCHANGED otherThanTabs

\* Line 21 mutated: the list is read again when the tab writes.
TabBaseReadAtWrite(tab) == getSessions(TabTool)

\* Line 21: the list the tab computes its write from is the one it read.
TabBase(tab) == tabs[tab].currentSessions

\* Lines 23-40: upsert, sort, slice and setItem.
TabWrites(tab) ==
  /\ tabs[tab].pc = "read"
  /\ sessions' =
       [sessions EXCEPT ![TabTool] =
          Item(Limit(SortByLastUsedDesc(Upsert(TabBase(tab),
                                               tabs[tab].session))))]
  /\ tabs' = [tabs EXCEPT ![tab] = IdleTab]
  /\ lastWrite' = [tab |-> tab, session |-> tabs[tab].session,
                   currentSessions |-> tabs[tab].currentSessions,
                   overwritten |-> getSessions(TabTool)]
  /\ UNCHANGED <<now, latest, resaves, selectedTool, toolChanges, tabSaves,
                 overlaps>>
  /\ UNCHANGED otherThanTabs

TabInit ==
  /\ tabs = [tab \in Tabs |-> IdleTab]
  /\ tabSaves = 0
  /\ overlaps = 0
  /\ lastWrite = NoWrite

(***************************************************************************)
(* The setup orchestrator under requests of any HTTP client.               *)
(***************************************************************************)
vars == <<srvVars, sessVars, cliVars, taskVars, timerVars, chunkVars,
          chatVars, extractVars, relayVars, storageVars, tabVars>>

Init == SrvInit /\ SessInit /\ CliInit /\ TaskInit /\ TimerInit
  /\ ChunkInit /\ ChatInit /\ ExtractInit
  /\ RelayInit /\ StorageInit /\ TabInit

AnyPost == \E b \in Bodies : Post(1, b)

SetupStep == ServerStep(1)

NextSetup == AnyPost \/ SetupStep

SpecSetup == Init /\ [][NextSetup]_vars

(***************************************************************************)
(* The session store under saves and clears.                               *)
(***************************************************************************)
NextSessions == SessionStep

SpecSessions == Init /\ [][NextSessions]_vars

(***************************************************************************)
(* The setup tasks of the chat page during one creation.                   *)
(***************************************************************************)
NextTasks ==
  \/ \E cs \in TaskCreationStates : StartSetup(cs)
  \/ ServerStep(1)
  \/ \E n \in 1..Len(frames[1]) : RenderText(n)
  \/ RenderDescriptor
  \/ RenderTextAndDescriptor
  \/ ReloadDescriptor

SpecTasks == Init /\ [][NextTasks]_vars

(***************************************************************************)
(* The expiry timer over the life of one descriptor.                       *)
(***************************************************************************)
NextExpiry ==
  \/ \E host \in TimerHosts, sb \in TimerDescriptors : ShowSandbox(host, sb)
  \/ \E off \in ExpiryOffsets :
       Advance(expiryTime(timerSandbox.sandbox) + off)
  \/ updateTimer

SpecExpiry == Init /\ [][NextExpiry]_vars

(***************************************************************************)
(* The life of one stored descriptor on the chat page: shown, reloaded     *)
(* from storage under its own route, timed, and stopped.                   *)
(***************************************************************************)
NextRemoval ==
  \/ NextExpiry
  \/ loadSandboxData
  \/ handleStopSandbox
  \/ StopSettled

SpecRemoval == Init /\ [][NextRemoval]_vars

(***************************************************************************)
(* A client loop reading one stream under every split into chunks.         *)
(***************************************************************************)
NextChunks ==
  \/ \E kind \in StreamKinds : \E cuts \in CutSets(kind) :
       StartStream(kind, cuts)
  \/ ReadChunk

SpecChunks == Init /\ [][NextChunks]_vars

(***************************************************************************)
(* The chat component of one tab under its user and its responses.         *)
(***************************************************************************)
NextChat ==
  \/ \E id \in ChatSandboxIds : \E sessionId \in ChatSessionIds(id) :
       ShowChat(id, sessionId)
  \/ \E sessionId \in ChatSessionIds(Str(SandboxIds[1])) :
       SandboxReady(sessionId)
  \/ \E text \in InputSamples : setInput(text)
  \/ \E mode \in BOOLEAN : setIsTerminalMode(mode)
  \/ handleSubmit
  \/ \E i \in 1..MaxSubmits, outcome \in ResponseOutcomes :
       handleResponse(i, outcome)
  \/ \E i \in 1..MaxSubmits, x \in TerminalExchanges :
       handleTerminalResponse(i, x)
  \/ handleNewChat

SpecChat == Init /\ [][NextChat]_vars

\* The fetch of a terminal request settles: its response is read to the end
\* or the request fails, and the rest of handleSubmit runs.
SpecChatLive ==
  /\ SpecChat
  /\ WF_vars(\E i \in 1..MaxSubmits, x \in TerminalExchanges :
               handleTerminalResponse(i, x))

(***************************************************************************)
(* The extractors on every response.                                       *)
(***************************************************************************)
NextExtract ==
  \E tool \in AITools, response \in ResponseSamples :
    CallExtractSessionId(tool, response)

SpecExtract == Init /\ [][NextExtract]_vars

(***************************************************************************)
(* The relay routes under requests of any HTTP client.                     *)
(***************************************************************************)
NextRelay == ChatPost \/ TerminalPost \/ TerminalStreamPost \/ StopPost

SpecRelay == Init /\ [][NextRelay]_vars

(***************************************************************************)
(* The storage hook under calls with any id, descriptor and state.         *)
(***************************************************************************)
NextStorage ==
  \/ \E id \in StorageIds : GetSandboxCall(id)
  \/ \E sandbox \in StorageSandboxes : setSandbox(sandbox)
  \/ \E id \in StorageIds : removeSandbox(id)
  \/ getCreationState
  \/ \E state \in StorageCreationStates : setCreationState(state)
  \/ clearCreationState

SpecStorage == Init /\ [][NextStorage]_vars

(***************************************************************************)
(* Two tabs saving sessions without coordination.                          *)
(***************************************************************************)
NextTabs ==
  \/ \E tab \in Tabs : \E sessionId \in TabSessionIds : TabReads(tab, sessionId)
  \/ \E tab \in Tabs : TabWrites(tab)

SpecTabs == Init /\ [][NextTabs]_vars

(***************************************************************************)
(* The browser application creating sandboxes through the orchestrator.    *)
(***************************************************************************)
NextCreation ==
  \/ \E key \in FormApiKeys, resume \in FormResume :
       handleCreateSandboxClick(key, resume)
  \/ loadSandboxData
  \/ \E c \in Conns, cut \in BOOLEAN : ReadStream(c, cut)
  \/ handleNewSandbox
  \/ handleStopSandbox
  \/ StopSettled
  \/ \E c \in Conns : CreationServerStep(c)

SpecCreation == Init /\ [][NextCreation]_vars

\* The orchestrator runs each request to the end of its stream, the browser
\* runs a pending load effect and the code after a read loop or a settled
\* fetch; what the user does next is not scheduled.
SpecCreationLive ==
  /\ SpecCreation
  /\ WF_vars(\E c \in Conns : CreationServerStep(c))
  /\ WF_vars(\E c \in Conns, cut \in BOOLEAN : ReadStream(c, cut))
  /\ WF_vars(loadSandboxData)
  /\ WF_vars(StopSettled)


(***************************************************************************)
(* Properties of the setup orchestrator.                                   *)
(***************************************************************************)
Range(s) == {s[i] : i \in DOMAIN s}

Closed(c) == spc[c] = "closed"

DataFrameIndexes(c) == {i \in DOMAIN frames[c] : frames[c][i].type = "data"}

LastFrame(c) == frames[c][Len(frames[c])]

EndsWithDataFrame(c) ==
  /\ frames[c] # <<>>
  /\ LastFrame(c).type = "data"
  /\ LastFrame(c).id \in {"sandbox-info", "error-info"}

\* C1: every request, valid or not, succeeding or failing, ends its stream
\* with exactly one terminal frame of type "data" (sandbox-info or
\* error-info), and that frame is the last one before the stream closes.
C1_ExactlyOneTerminalFrameLast ==
  \A c \in Conns :
    Closed(c) =>
      /\ Cardinality(DataFrameIndexes(c)) = 1
      /\ EndsWithDataFrame(c)

\* C2: the terminal frame follows the exit code of the step-3 invocation:
\* exit code 0 gives success:true with the full descriptor, any other exit
\* code gives success:false with an error taken from stderr, else stdout,
\* else a generic message.
C2_TerminalFrameFollowsExitCode ==
  \A c \in Conns :
    (Closed(c) /\ testResult[c] # NoResult) =>
      /\ EndsWithDataFrame(c)
      /\ IF testResult[c].exitCode = 0
         THEN /\ LastFrame(c).data.success
              /\ LastFrame(c).data.sandbox.id = Str(SandboxIds[sandboxOf[c]])
         ELSE /\ ~LastFrame(c).data.success
              /\ LastFrame(c).data.error = FailureDetail(testResult[c])

\* A key that is missing, or blank: empty or made of white space only.
ApiKeyMissingOrBlank(apiKey) ==
  \/ apiKey \in {Undef, Null}
  \/ apiKey.t = "string" /\ apiKey.v \in {"", " "}

ToolNotInRegistry(b) ==
  EffectiveTool(b) \notin {Str(t) : t \in AITools}

NoSandboxSideEffect(c) == createCalls[c] = <<>> /\ runCalls[c] = <<>>

\* C3: a request whose apiKey is missing or blank, or whose tool is not a
\* registry id, is rejected before any sandbox side effect: neither
\* Sandbox.create nor runCommand is ever invoked for it.
C3_InvalidRequestCreatesNothing ==
  \A c \in Conns :
    (body[c].ok /\ (ApiKeyMissingOrBlank(body[c].apiKey)
                    \/ ToolNotInRegistry(body[c])))
      => NoSandboxSideEffect(c)

\* C4: an exception thrown during install or invocation, after the sandbox
\* was created, ends the stream with a terminal failure frame: a data frame
\* with success:false and the error.
C4_ExceptionGivesTerminalFailure ==
  \A c \in Conns :
    (Closed(c) /\ innerThrown[c] # NotThrown) =>
      /\ EndsWithDataFrame(c)
      /\ ~LastFrame(c).data.success
      /\ LastFrame(c).data.error # ""

\* The three invocation shapes, told apart by the flags they carry.
IsResumeForm(args, sessionId) ==
  \E i \in 1..(Len(args) - 1) : args[i] = "--resume" /\ args[i + 1] = sessionId

IsContinueForm(args) ==
  /\ "--resume" \notin Range(args)
  /\ \/ "--continue" \in Range(args)
     \/ "resume" \in Range(args)

IsNewPromptForm(args, prompt) ==
  /\ Range(args) \cap {"--resume", "--continue", "resume"} = {}
  /\ \E i \in 1..(Len(args) - 1) : args[i] = "-p" /\ args[i + 1] = prompt

InvocationMade(c) == Len(runCalls[c]) >= 2

\* C5: the invocation is the resume form with the given session id when
\* resumeSession is true and sessionId is not empty, the continue form when
\* resumeSession is true and no sessionId is given, and the new-prompt form
\* in every other case; the terminal sandbox-info frame echoes the request's
\* sessionId as session.requestedSessionId.
C5_InvocationShape ==
  \A c \in Conns :
    /\ InvocationMade(c) =>
         LET args == runCalls[c][2].args
             resume == EffectiveResume(body[c]) = Bool(TRUE)
             sid == body[c].sessionId
             given == sid.t = "string" /\ sid.v # ""
         IN /\ (resume /\ given) => IsResumeForm(args, sid.v)
            /\ (resume /\ ~given) => IsContinueForm(args)
            /\ ~resume => IsNewPromptForm(args, EffectivePrompt(body[c]).v)
    /\ (Closed(c) /\ EndsWithDataFrame(c) /\ LastFrame(c).id = "sandbox-info") =>
         LastFrame(c).data.sandbox.session.requestedSessionId = body[c].sessionId

\* The run of scenario B has ended: resumeSession true, sessionId "abc123",
\* the resume form was invoked and the descriptor was sent.
C5_Witness ==
  \E c \in Conns :
    /\ Closed(c)
    /\ body[c].resumeSession = Bool(TRUE)
    /\ body[c].sessionId = Str("abc123")
    /\ InvocationMade(c)
    /\ "abc123" \in Range(runCalls[c][2].args)
    /\ LastFrame(c).id = "sandbox-info"
    /\ LastFrame(c).data.sandbox.session.requestedSessionId = Str("abc123")

Deltas(c) ==
  {frames[c][i].delta :
     i \in {j \in DOMAIN frames[c] : frames[c][j].type = "text-delta"}}

\* C6: once the sandbox exists and the install command has returned, with
\* any exit code, the step-3 invocation is executed; a non-zero install exit
\* code gives a warning line only, and neither ends the run nor makes the
\* terminal frame a failure.
C6_InstallFailureIsNotFatal ==
  \A c \in Conns :
    installExit[c] # -1 =>
      /\ InvocationMade(c)
      /\ runCalls[c][2].cmd \in {"bash", "cursor-agent"}
      /\ runCalls[c][2] # runCalls[c][1]
      /\ spc[c] \in {"testing", "closed"}
      /\ "testing-new" \in Deltas(c) \/ "testing-resuming" \in Deltas(c)
      /\ installExit[c] # 0 =>
           /\ "installed-with-warnings" \in Deltas(c)
           /\ "installed-ok" \notin Deltas(c)
           /\ innerThrown[c] = NotThrown => "setup-error" \notin Deltas(c)
           /\ Closed(c) =>
                \/ testResult[c] # NoResult
                \/ innerThrown[c] # NotThrown
           /\ (Closed(c) /\ testResult[c].exitCode = 0) =>
                /\ LastFrame(c).data.success
                /\ LastFrame(c).data.sandbox.verification.installed

\* The install command exited with a non-zero code and the run went on to
\* the end: the invocation returned 0 and the descriptor was sent.
C6_Witness ==
  \E c \in Conns :
    /\ installExit[c] = 1
    /\ Closed(c)
    /\ testResult[c].exitCode = 0
    /\ LastFrame(c).id = "sandbox-info"

\* aliveTimeMinutes in milliseconds, clamped to the configured range.
ClampedTimeoutMs(minutes) ==
  LET ms == minutes * 60 * 1000
  IN IF ms < MIN_SANDBOX_ALIVE_TIME_MS THEN MIN_SANDBOX_ALIVE_TIME_MS
     ELSE IF ms > MAX_SANDBOX_ALIVE_TIME_MS THEN MAX_SANDBOX_ALIVE_TIME_MS
     ELSE ms

\* C7: the sandbox is created with the request's aliveTimeMinutes converted
\* to milliseconds and clamped to [1 minute, 10 minutes], and the descriptor
\* reports the timeout that was passed to the runtime.
C7_TimeoutFromAliveTimeMinutes ==
  \A c \in Conns :
    createCalls[c] # <<>> =>
      /\ createCalls[c][1].timeout = ClampedTimeoutMs(body[c].aliveTimeMinutes)
      /\ (Closed(c) /\ LastFrame(c).id = "sandbox-info") =>
           LastFrame(c).data.sandbox.timeoutMs = createCalls[c][1].timeout


(***************************************************************************)
(* Session store                                                           *)
(***************************************************************************)

StoredSet(tool) == Range(getSessions(tool))

\* C8: whatever saves and clears have happened, the list stored for each
\* tool has at most 10 records, no two of them with the same sessionId, and
\* is ordered by lastUsedAt descending.
C8_StoreBoundedUniqueSorted ==
  \A tool \in AITools :
    LET list == getSessions(tool)
    IN /\ Len(list) <= 10
       /\ \A i, j \in DOMAIN list :
            i # j => list[i].sessionId # list[j].sessionId
       /\ \A i, j \in DOMAIN list :
            i < j => list[i].lastUsedAt >= list[j].lastUsedAt

\* A full list that has gone through a save of an id it already held and
\* holds records of different ages.
C8_Witness ==
  \E tool \in AITools :
    LET list == getSessions(tool)
    IN /\ Len(list) = 10
       /\ resaves > 0
       /\ list[1].lastUsedAt > list[10].lastUsedAt

\* C9: of the sessions saved for a tool since its list was last cleared, the
\* list holds the most recently used ones, 10 of them once more than 10 ids
\* have been saved: every record kept is the latest one of its id, and no
\* session left out was used later than a session kept.
C9_KeepsTenMostRecent ==
  \A tool \in AITools :
    LET kept == StoredSet(tool)
        n    == Cardinality(SavedIds(tool))
    IN /\ kept \subseteq latest[tool]
       /\ Len(getSessions(tool)) = IF n <= 10 THEN n ELSE 10
       /\ \A out \in latest[tool] \ kept : \A in \in kept :
            out.lastUsedAt <= in.lastUsedAt

\* Eleven distinct ids have been saved for one tool, the list holds 10, and
\* the session left out is strictly older than every session kept.
C9_Witness ==
  \E tool \in AITools :
    /\ Cardinality(SavedIds(tool)) = 11
    /\ Len(getSessions(tool)) = 10
    /\ \E out \in latest[tool] \ StoredSet(tool) :
         \A in \in StoredSet(tool) : out.lastUsedAt < in.lastUsedAt


(***************************************************************************)
(* Creation flow of the browser application                                *)
(***************************************************************************)

\* The last handler run was the end of a setup stream read by the client.
StreamEnded == lastRun.conn \in Conns

\* What the client parsed from that stream.
Obtained == reader[lastRun.conn].sandboxData

ObtainedRealId == Obtained # Null /\ Obtained.id # Null /\ Obtained.id # Undef

\* After a stream from which a descriptor with a non-null id was parsed:
\* the handler's calls were, in this order, setSandbox with the descriptor,
\* clearCreationState, router.replace to the real id, and so the descriptor
\* is stored under its id, the creation state is gone and the route is the
\* real id.
C10_AfterSuccess ==
  (StreamEnded /\ ObtainedRealId) =>
    LET d == Obtained
        id == d.id.v
    IN /\ Len(lastRun.ops) = 3
       /\ lastRun.ops[1] = [op |-> "setSandbox", sandbox |-> d]
       /\ lastRun.ops[2] = [op |-> "clearCreationState"]
       /\ lastRun.ops[3] = [op |-> "replace",
                            to |-> [page |-> "chat", sandboxId |-> id]]
       /\ registry[id] = [present |-> TRUE, sandbox |-> d]
       /\ ~creationState.present
       /\ route = [page |-> "chat", sandboxId |-> id]

\* A step that takes a stored creation state away is the end of a stream
\* that gave a descriptor with a non-null id, or the user abandoning:
\* handleNewSandbox or handleStopSandbox.
C10_ClearedOnlyBy ==
  (creationState.present /\ ~creationState'.present) =>
    \/ lastRun'.conn \in Conns /\ ObtainedRealId'
    \/ lastRun'.handler \in {"handleNewSandbox", "handleStopSandbox"}

\* C10: when the client has read a terminal success frame whose descriptor
\* has a non-null id, it stores the descriptor under that id, then clears
\* the creation state, then replaces the route with the real id; and
\* nothing else clears the creation state but the user abandoning creation
\* (new sandbox, stop).
C10_PersistClearReplace ==
  /\ []C10_AfterSuccess
  /\ [][C10_ClearedOnlyBy]_vars

\* The chat page read a stream to its end, parsed a descriptor with a real
\* id from it, and the creation state of the attempt is gone.
C10_Witness ==
  /\ StreamEnded
  /\ lastRun.handler = "startSandboxCreation"
  /\ ObtainedRealId
  /\ ~creationState.present

(***************************************************************************)
(* Properties of the setup tasks.                                          *)
(***************************************************************************)
TaskStatusOf(id) ==
  LET i == CHOOSE j \in DOMAIN setupTasks : setupTasks[j].id = id
  IN setupTasks[i].status

\* C11: the task list is always the three tasks create-sandbox,
\* install-tool, test-connection in that order, and a task that has reached
\* completed or failed keeps that status under every later update from the
\* streamed text or from the descriptor.
C11_TasksSettleOnce ==
  setupTasks # <<>> =>
    /\ [i \in DOMAIN setupTasks |-> setupTasks[i].id] = TaskIds
    /\ \A i \in DOMAIN setupTasks :
         settled[i] # "none" => setupTasks[i].status = settled[i]

\* The statuses the streamed-text effect gives the initial tasks from the
\* whole text of a finished stream, and the ones the descriptor effect gives
\* them from the descriptor that ends it.
TextDerived ==
  StreamedUpdate(initialTasks, StreamingMessages(1, Len(frames[1])))

DescriptorDerived == DescriptorUpdate(initialTasks, DescriptorVerification)

\* C12: for every complete setup run that ends with a descriptor (all steps
\* succeeding, install warning, invocation exit code non-zero, exception
\* during setup), each task's status derived from the full accumulated text
\* equals the status derived from the descriptor's installed, configured and
\* error fields.
C12_TextAndDescriptorAgree ==
  StreamHasDescriptor =>
    \A i \in DOMAIN TaskIds :
      TextDerived[i].status = DescriptorDerived[i].status

(***************************************************************************)
(* Properties of the expiry timer.                                         *)
(***************************************************************************)
TimerChecked == timerSandbox.shown /\ checkedAt >= 0

\* C13: for a descriptor with createdAt = T0 and timeoutMs = D the expiry
\* check reports expired exactly when now > T0 + D: expired at T0 + D + 1,
\* not expired at T0 + D - 1 nor at now = T0 + D.
C13_ExpiredExactlyAfterExpiry ==
  (TimerChecked /\ clock = checkedAt) =>
    (isExpired <=> checkedAt > expiryTime(timerSandbox.sandbox))

(***************************************************************************)
(* Properties of the client read loops.                                    *)
(***************************************************************************)
StreamRead ==
  /\ chunking.kind # "none"
  /\ chunking.sent = Len(Wire(StreamOf(chunking.kind)))

\* What the loop has when every frame arrives whole in one chunk.
WholeResult(kind) ==
  HandleLines(kind, NothingReceived, SplitLines(Wire(StreamOf(kind)), <<>>))

\* C14: however the bytes of a setup, chat or terminal stream are split into
\* chunks, the loop ends with the same accumulated text and the same
\* terminal payload as when every frame arrives whole in one chunk.
C14_SplitDoesNotChangeResult ==
  StreamRead => received = WholeResult(chunking.kind)

(***************************************************************************)
(* Properties of the chat component.                                       *)
(***************************************************************************)
\* C15: within one tab at most one chat or terminal request is outstanding
\* at any time; a request is outstanding only while isLoading is true (it is
\* set before the request is sent); and a submission made while isLoading
\* is true sends nothing and queues nothing.
C15_AtMostOneOutstanding ==
  /\ [](Len(outstanding) <= 1)
  /\ [](outstanding # <<>> => isLoading)
  /\ [][(isLoading /\ lastSubmit' = "ignored" /\ handleSubmit)
          => (outstanding' = outstanding /\ submitted' = submitted
              /\ messages' = messages)]_vars

C15_Witness ==
  /\ Len(outstanding) = 1
  /\ isLoading
  /\ lastSubmit = "ignored"
  /\ Trim(input) # ""

(***************************************************************************)
(* Properties of the session id extractors.                                *)
(***************************************************************************)
\* C20: for both tools and every response (a string that is or is not valid
\* JSON, an object, an array, null, a number) extractSessionId returns a
\* string or null and never throws, and a string that is not valid JSON
\* gives null.
C20_ExtractSessionIdTotal ==
  extraction.called =>
    /\ ~extraction.outcome.threw
    /\ extraction.outcome.value.t \in {"string", "null"}
    /\ (extraction.response.k = "string"
        /\ extraction.response.text.kind # "json")
         => extraction.outcome.value = Null

(***************************************************************************)
(* Properties of the relay routes.                                         *)
(***************************************************************************)
RunCalls == SelectSeq(relay.calls, LAMBDA call : call.op = "runCommand")

\* The command of the request was run and returned.
CommandReturned ==
  /\ relay.route # "none"
  /\ RunCalls # <<>>
  /\ ~relay.runtime.runThrows

MetadataTypes == {"data-session-metadata", "data-error-metadata"}

\* C16: the chat relay's response follows the exit code of the invocation:
\* non-zero gives an HTTP error response with a JSON error body and no
\* frames; zero gives a stream of one text-delta frame followed by exactly
\* one metadata frame (data-session-metadata or data-error-metadata).
C16_ChatResponseFollowsExitCode ==
  (relay.route = "chat" /\ CommandReturned) =>
    IF relay.runtime.result.exitCode # 0
    THEN /\ relay.response.kind = "json"
         /\ relay.response.status >= 400
         /\ "error" \in DOMAIN relay.response.json
         /\ relay.response.frames = <<>>
    ELSE /\ relay.response.kind = "stream"
         /\ Len(relay.response.frames) = 2
         /\ relay.response.frames[1].type = "text-delta"
         /\ relay.response.frames[2].type \in MetadataTypes

LastMessageOf(b) == b.messages.v[Len(b.messages.v)]

\* C17: the chat relay runs at most one command per request, and one for
\* every valid request whose sandbox resolves; it runs it only when the
\* last message has role user, with that message's content as the prompt,
\* in the resume form with the given sessionId when one is present and in
\* the continue form otherwise, never in the new-prompt form.
C17_ChatInvocationShape ==
  relay.route = "chat" =>
    /\ Len(RunCalls) <= 1
    /\ relay.response.kind = "stream" => Len(RunCalls) = 1
    /\ RunCalls # <<>> =>
         LET b == relay.body
             args == RunCalls[1].call.args
             sid == b.sessionId
             given == sid.t = "string" /\ sid.v # ""
             content == LastMessageOf(b).content
             prompt == IF b.tool.v = "claude-code" THEN EscapeArg(content)
                       ELSE content
         IN /\ LastMessageOf(b).role = "user"
            /\ args[Len(args) - 1] = "-p"
            /\ args[Len(args)] = prompt
            /\ given => IsResumeForm(args, sid.v)
            /\ ~given => IsContinueForm(args)
            /\ ~IsNewPromptForm(args, prompt)

\* A chat request with two messages and a session id was relayed in the
\* resume form.
C17_Witness ==
  /\ relay.route = "chat"
  /\ RunCalls # <<>>
  /\ relay.body.sessionId = Str("abc123")
  /\ Len(relay.body.messages.v) = 2
  /\ IsResumeForm(RunCalls[1].call.args, "abc123")
  /\ relay.response.kind = "stream"

\* The words of a command: its maximal runs of characters that are not
\* whitespace, in order.
WordStarts(chars) ==
  { i \in DOMAIN chars :
      chars[i] \notin WhiteSpace /\ (i = 1 \/ chars[i - 1] \in WhiteSpace) }

WordEnd(chars, i) ==
  CHOOSE j \in i..Len(chars) :
    /\ \A k \in i..j : chars[k] \notin WhiteSpace
    /\ j = Len(chars) \/ chars[j + 1] \in WhiteSpace

Words(chars) ==
  [ n \in 1..Cardinality(WordStarts(chars)) |->
      LET i == CHOOSE st \in WordStarts(chars) :
                 Cardinality({o \in WordStarts(chars) : o < st}) = n - 1
      IN SubSeq(chars, i, WordEnd(chars, i)) ]

\* C18: the terminal relay (both variants) runs the command non-privileged,
\* with cmd the first word of the command string and args the remaining
\* words in their order, words being separated by runs of whitespace and
\* quotes being ordinary characters.
C18_TerminalCommandTokens ==
  (relay.route \in {"terminal", "terminal-stream"} /\ RunCalls # <<>>) =>
    LET call == RunCalls[1].call
        words == Words(relay.body.command.v)
    IN /\ Len(RunCalls) = 1
       /\ call.sudo = FALSE
       /\ words # <<>> =>
            /\ call.cmd = words[1]
            /\ call.args = Tail(words)

\* The command "l", space, tab, "'" was run as cmd l with the one argument '.
C18_Witness ==
  /\ relay.route \in {"terminal", "terminal-stream"}
  /\ RunCalls # <<>>
  /\ relay.body.command.v = <<"l", " ", "\t", "'">>
  /\ RunCalls[1].call.cmd = <<"l">>
  /\ RunCalls[1].call.args = << <<"'">> >>

\* C19: a request to the stop, chat or terminal route whose sandbox id the
\* runtime cannot resolve is answered with status 404 and a JSON body
\* {success: false, error}; a validation failure is answered with a 4xx
\* status.
C19_UnknownSandboxIs404 ==
  /\ (relay.route # "none" /\ relay.calls # <<>> /\ ~relay.runtime.resolves)
       => /\ relay.response.status = 404
          /\ relay.response.kind = "json"
          /\ DOMAIN relay.response.json = {"success", "error"}
          /\ relay.response.json.success = FALSE
  /\ (relay.route # "none" /\ relay.body.ok /\ relay.calls = <<>>)
       => relay.response.status \in 400..499


(***************************************************************************)
(* Properties of the sandbox registry and of the creation-state slot.      *)
(***************************************************************************)

\* C21: at most one creation state is stored: setCreationState replaces
\* whatever was stored, so getCreationState returns the value of the most
\* recent setCreationState that no clearCreationState has followed, and
\* null after clearCreationState.
C21_SingleCreationSlot ==
  /\ ParsedItem(localStorage, CREATION_STATE_KEY) = creationWritten
  /\ storageCall.op = "getCreationState" => storageCall.result = creationWritten

SandboxCalls == {"getSandbox", "setSandbox", "removeSandbox"}

C30_RegistryAndSlotAreDisjoint ==
  /\ storageCall.op \in SandboxCalls =>
       /\ CREATION_STATE_KEY \notin storageCall.keys
       /\ localStorage[CREATION_STATE_KEY]
            = storageCall.before[CREATION_STATE_KEY]
  /\ storageCall.op \in {"setCreationState", "clearCreationState"} =>
       \A id \in StorageIds :
         /\ getSandboxStorageKey(id) \notin storageCall.keys
         /\ localStorage[getSandboxStorageKey(id)]
              = storageCall.before[getSandboxStorageKey(id)]


(***************************************************************************)
(* Properties of a creation attempt.                                       *)
(***************************************************************************)

\* C23: one submission of the creation form gives one request to the setup
\* orchestrator: of the form handler and the handler of the creating-*
\* route, at most one sends a setup request for the attempt.
C23_OneSetupRequestPerSubmission == Len(attemptRequests) <= 1


\* The chat page shows the creating-* route with the provisional
\* descriptor, whose id is null.
Provisional ==
  /\ route = Chat(TempId)
  /\ pagePc = "loaded"
  /\ pageSandbox # Null
  /\ pageSandbox.id = Null

\* The setup stream of the page's request has closed.
PageStreamClosed ==
  \E c \in Conns : reader[c].owner = "page" /\ spc[c] = "closed"

\* C24: a creation attempt started on a creating-* route leaves the
\* provisional state once its setup stream has closed: the route is
\* replaced with the real id, or the client goes back to home; the client
\* does not stay on the creating-* route with a descriptor whose id is null.
C24_ProvisionalStateEnds ==
  (Provisional /\ PageStreamClosed) ~> ~Provisional


(***************************************************************************)
(* Properties of uncoordinated saves.                                      *)
(***************************************************************************)

\* C25: when two tabs run saveSession on the list of one tool concurrently,
\* each reading the list, changing its copy and writing it, the stored list
\* is the one the last writer computed: its records are the writer's record
\* and records the writer had read, so a record the other tab wrote in
\* between may be missing; and the list still has at most 10 records, no
\* sessionId twice, and is sorted by lastUsedAt descending.
C25_LastWriterWins ==
  LET list == getSessions(TabTool)
  IN /\ Len(list) <= 10
     /\ \A i, j \in DOMAIN list :
          i < j => /\ list[i].sessionId # list[j].sessionId
                   /\ list[i].lastUsedAt >= list[j].lastUsedAt
     /\ lastWrite.tab # 0 =>
          /\ \A i \in DOMAIN list :
               \/ list[i] = lastWrite.session
               \/ list[i] \in Range(lastWrite.currentSessions)
          /\ \/ lastWrite.session \in Range(list)
             \/ /\ Len(list) = 10
                /\ \A i \in DOMAIN list :
                     list[i].lastUsedAt >= lastWrite.session.lastUsedAt

\* A tab has written a list shorter than 10 that lacks a record the other
\* tab had stored after this tab's read.
C25_Witness ==
  /\ lastWrite.tab # 0
  /\ Len(getSessions(TabTool)) < 10
  /\ \E r \in Range(lastWrite.overwritten) :
       /\ r \notin Range(lastWrite.currentSessions)
       /\ \A i \in DOMAIN getSessions(TabTool) :
            getSessions(TabTool)[i].sessionId # r.sessionId


\* A submission that sends a chat request.
SendsChatRequest ==
  /\ handleSubmit
  /\ lastSubmit' = "sent"
  /\ Len(outstanding') = Len(outstanding) + 1
  /\ outstanding'[Len(outstanding')].route = "chat"

\* C26: after New Chat the current session id of the component is null until
\* a chat response supplies a session id, and a chat request sent in that
\* time carries sessionId = null.
C26_NewChatClearsSessionId ==
  /\ [](sinceNewChat => currentSessionId = Null)
  /\ [][(sinceNewChat /\ SendsChatRequest)
          => outstanding'[Len(outstanding')].body.sessionId = Null]_vars


TerminalMessages == {i \in DOMAIN messages : messages[i].type = "terminal"}

\* A terminal message still shows the placeholder's exit code.
HasPlaceholder ==
  \E i \in TerminalMessages : messages[i].terminalResult.exitCode = -1

\* The messages the last terminal response was for.
LastTerminalMessages ==
  {i \in TerminalMessages : messages[i].id = lastResponse.loadingMessageId}

\* C27: the exit code in the terminal relay's result is the one the runtime
\* returned for the command; the message of a terminal submission shows that
\* exit code, or 1 when no result was read; no terminal message shows -1 once
\* isLoading is false again; and every placeholder is eventually replaced.
C27_PlaceholderIsReplaced ==
  /\ [](lastResponse.route = "terminal" =>
          /\ ~lastResponse.read.threw =>
               lastResponse.read.value.exitCode
                 = lastResponse.result.exitCode
          /\ \A i \in LastTerminalMessages :
               messages[i].terminalResult.exitCode
                 = IF lastResponse.read.threw THEN 1
                   ELSE lastResponse.result.exitCode)
  /\ [](~isLoading => ~HasPlaceholder)
  /\ (HasPlaceholder ~> ~HasPlaceholder)

\* Two terminal submissions have been answered, the first with an error and
\* the second with the result of a command that the runtime ran.
C27_Witness ==
  /\ ~isLoading
  /\ lastResponse.route = "terminal"
  /\ ~lastResponse.read.threw
  /\ lastResponse.result.exitCode = 0
  /\ Cardinality(TerminalMessages) = 2
  /\ \E i \in LastTerminalMessages :
       messages[i].terminalResult.exitCode = 0
  /\ \E i \in TerminalMessages \ LastTerminalMessages :
       messages[i].terminalResult.exitCode = 1


\* The descriptor is stored in the registry under its own id.
StoredUnderRealId(d) ==
  /\ HasRealId(d)
  /\ d.id.v \in RegistryKeys
  /\ registry[d.id.v].present

\* The timer of the chat page observes the expiry of the descriptor shown.
ObservesExpiry ==
  /\ updateTimer
  /\ timerSandbox.host = "page"
  /\ isExpired'

\* C28: when the timer of the chat page observes the expiry of the sandbox
\* shown, and when handleStopSandbox completes whatever the answer, the
\* descriptor stored under the sandbox's id is no longer in the registry;
\* observing expiry sends no stop request.
C28_DescriptorRemoved ==
  /\ [][ObservesExpiry =>
          /\ ~registry'[timerSandbox.sandbox.id.v].present
          /\ UNCHANGED stopping]_vars
  /\ [][StopSettled => ~registry'[stopping.id].present]_vars


\* The stored list of a tool after the step.
SessionsAfter(tool) ==
  IF sessions'[tool].present THEN sessions'[tool].list ELSE <<>>

\* C29: a record saved again under a sessionId that is already stored keeps
\* the createdAt of the stored record, and so of the first save.
C29_CreatedAtKept ==
  [][\A tool \in AITools :
       \A i \in DOMAIN getSessions(tool), j \in DOMAIN SessionsAfter(tool) :
         getSessions(tool)[i].sessionId = SessionsAfter(tool)[j].sessionId
           => SessionsAfter(tool)[j].createdAt
                = getSessions(tool)[i].createdAt]_vars

=============================================================================
